---- MODULE Spec2Model ----
(***************************************************************************)
(* Verification model of the Nidia Smart Battery Recharge integration      *)
(* (custom_components/night_battery_charger).                              *)
(*                                                                         *)
(* Numbers.  The Python code computes with floats; the model computes with *)
(* exact integers:                                                         *)
(*   - energies handed to the components are whole kWh, percentages whole  *)
(*     percent;                                                            *)
(*   - a state of charge computed by the planner is the rational           *)
(*     target_soc_num / soc_den (percent), soc_den = 100 * capacity;       *)
(*   - an energy computed by the planner is in units of 1/10000 kWh (the   *)
(*     fields ending in _e4);                                              *)
(*   - the energy balance is in units of 1/10000 kWh as well;              *)
(*   - a power reading is in whole watts; the energy the forecaster        *)
(*     integrates is in units of watt x tick / 2, that is                  *)
(*     1 / (2000 * TicksPerHour) kWh; a weekday average is the rational    *)
(*     num / den.                                                          *)
(*   - a calendar date is a day number (day 0 is a Monday); ISO date       *)
(*     strings compare as their day numbers do.                            *)
(*   - in the savings calculator a price is in 1/1000 EUR per kWh, a rate  *)
(*     in 1/16000 EUR per kWh, charged energy in 1/10 kWh, and a cost or a *)
(*     saving in cents; round(x, 2) is the rounding to whole cents. A      *)
(*     float product that is exactly half a cent away from two cents is    *)
(*     rounded to either of them, depending on its representation error.   *)
(*   - a month has 31 days: the month token of a date is date \div 31.     *)
(* Time.  A datetime is a number of ticks since 00:00 of day 0, a time of  *)
(* day is a number of ticks since 00:00; there are TicksPerHour ticks in   *)
(* an hour.  None (no timer) is the value None below.                      *)
(***************************************************************************)
EXTENDS Integers, Sequences, FiniteSets, TLC

VARIABLES
    ev_in,      \* inputs of one EVManager.evaluate call made on its own
    ev_out,     \* the EVDecision it returned
    pl_in,      \* PlanningInput of one ChargePlanner.calculate call made on its own
    pl_out,     \* the PlanningResult it returned
    bal_in,     \* arguments of one calculate_energy_balance call made on its own
    bal_out,    \* the dictionary it returned
    fc,         \* a ConsumptionForecaster
    fc_ret,     \* the latest call made on the forecaster and what it returned
    fc_day,     \* the calendar day of the host of the forecaster
    sv,         \* a SavingsCalculator
    sv_ret,     \* the latest call made on the savings calculator and what it returned
    sv_today,   \* date.today() of the host of the savings calculator
    sv_count,   \* the number of record_charge_session calls made so far
    clock,      \* the wall clock (dt_util.now()), in ticks
    due,        \* scheduled callbacks whose time has come and that have not run yet
    state,      \* NidiaCoordinator.state (NidiaState)
    hardware,   \* NidiaCoordinator.hardware (HardwareController tracking fields)
    switch_bypass, \* the bypass switch entity itself (on = TRUE)
    decision,   \* the EVDecision of the latest handle_ev_energy_change
    task_pc,    \* where each callback stands that has been suspended at an await
    sessions_started, \* the number of charge sessions _start_charging has begun
    session_records, \* the record_charge_session calls made since the latest of them
    bp,         \* the bypass requests: configuration, ExecutionService fields, latest request
    rl          \* the rate limiter: time.time(), _last_service_call, latest service call

evalVars == <<ev_in, ev_out>>
planVars == <<pl_in, pl_out>>
balVars == <<bal_in, bal_out>>
fcVars == <<fc, fc_ret, fc_day>>
svVars == <<sv, sv_ret, sv_today, sv_count>>
taskVars == <<task_pc, sessions_started, session_records>>
auxVars == <<bp, rl>>
coordVars == <<clock, due, state, hardware, switch_bypass, decision, task_pc,
               sessions_started, session_records, bp, rl>>
vars == <<ev_in, ev_out, pl_in, pl_out, bal_in, bal_out, fc, fc_ret, fc_day,
          sv, sv_ret, sv_today, sv_count,
          clock, due, state, hardware, switch_bypass, decision,
          task_pc, sessions_started, session_records, bp, rl>>

(***************************************************************************)
(* Bounds of the model                                                     *)
(***************************************************************************)
TicksPerHour == 2
EvalSpan == 2
MaxHour == 32
MaxCloseDays == 3
MaxDayEnergy == 2000
MaxSessions == 2
MaxSavingsDays == 2
MaxBypassRequests == 4

\* service calls and clock readings followed, and time.time() at start-up
MaxServiceCalls == 4
MaxRateTicks == 3
StartEpoch == 1700000000

(***************************************************************************)
(* Generic helpers                                                         *)
(***************************************************************************)
None == -1

Max(a, b) == IF a >= b THEN a ELSE b

Min(a, b) == IF a <= b THEN a ELSE b

Hours(h) == h * TicksPerHour

DayTicks == Hours(24)

TimeOfDay(now) == now % DayTicks

(***************************************************************************)
(* domain/ev_manager.py                                                    *)
(***************************************************************************)
EV_CHARGE_TIMEOUT_HOURS == 6

CHARGING_WINDOW_START == Hours(0)

CHARGING_WINDOW_END == Hours(7)

EV_MAX_VALUE == 200

NoBalance == [none |-> TRUE]

IsNoBalance(b) == "none" \in DOMAIN b

validate_value_no_lower(value) == Min(EV_MAX_VALUE, value)

validate_value_no_upper(value) == Max(0, value)

validate_value(value) == Max(0, Min(EV_MAX_VALUE, value))

is_in_charging_window(current_time) ==
    CHARGING_WINDOW_START <= current_time /\ current_time < CHARGING_WINDOW_END

is_timeout_reached(timer_start, now, timeout_hours) ==
    IF timer_start = None
    THEN FALSE
    ELSE (now - timer_start) >= Hours(timeout_hours)

should_activate_bypass_ignoring_timeout(energy_balance, is_timeout) ==
    IF IsNoBalance(energy_balance)
    THEN [activate |-> FALSE, reason |-> "TypeError", raised |-> TRUE]
    ELSE IF energy_balance.sufficient
    THEN [activate |-> FALSE, reason |-> "sufficient_energy", raised |-> FALSE]
    ELSE [activate |-> TRUE, reason |-> "insufficient_energy", raised |-> FALSE]

\* The pair (should_activate, reason); "raise" when energy_balance is None
\* and the subscript energy_balance["sufficient"] fails.
should_activate_bypass(energy_balance, is_timeout) ==
    IF is_timeout THEN [activate |-> FALSE, reason |-> "timeout", raised |-> FALSE]
    ELSE IF IsNoBalance(energy_balance)
         THEN [activate |-> FALSE, reason |-> "TypeError", raised |-> TRUE]
    ELSE IF energy_balance.sufficient
         THEN [activate |-> FALSE, reason |-> "sufficient_energy", raised |-> FALSE]
    ELSE [activate |-> TRUE, reason |-> "insufficient_energy", raised |-> FALSE]

EVDecision(result, reason, value, bypass, bypass_reason, balance, is_timeout) ==
    [result |-> result, reason |-> reason, value |-> value,
     bypass_should_activate |-> bypass, bypass_reason |-> bypass_reason,
     energy_balance |-> balance, is_timeout |-> is_timeout]

NoDecision == EVDecision("none", "", 0, FALSE, "", NoBalance, FALSE)

evaluate_reset_before_window(new_value, old_value, current_time, now, timer_start, energy_balance) ==
    LET value == validate_value(new_value)
        in_window == is_in_charging_window(current_time)
        is_timeout == is_timeout_reached(timer_start, now, EV_CHARGE_TIMEOUT_HOURS)
        bypass == should_activate_bypass(energy_balance, is_timeout)
    IN  IF value = 0
        THEN EVDecision("RESET", "ev_set_to_zero", 0, FALSE, "ev_reset",
                        NoBalance, FALSE)
        ELSE IF ~in_window
        THEN EVDecision("SAVED", "outside_charging_window", value, FALSE,
                        "outside_window", NoBalance, FALSE)
        ELSE IF bypass.raised
        THEN EVDecision("raised", "TypeError", value, FALSE, "", NoBalance, is_timeout)
        ELSE EVDecision("PROCESSED", "in_charging_window", value, bypass.activate,
                        bypass.reason, energy_balance, is_timeout)

\* EVManager.evaluate: the signature has exactly these six parameters; the
\* timeout is the default of is_timeout_reached and the window is the pair
\* of module constants.
evaluate(new_value, old_value, current_time, now, timer_start, energy_balance) ==
    LET value == validate_value(new_value)
        in_window == is_in_charging_window(current_time)
        is_timeout == is_timeout_reached(timer_start, now, EV_CHARGE_TIMEOUT_HOURS)
        bypass == should_activate_bypass(energy_balance, is_timeout)
    IN  IF ~in_window
        THEN EVDecision("SAVED", "outside_charging_window", value, FALSE,
                        "outside_window", NoBalance, FALSE)
        ELSE IF value = 0
        THEN EVDecision("RESET", "ev_set_to_zero", 0, FALSE, "ev_reset",
                        NoBalance, FALSE)
        ELSE IF bypass.raised
        THEN EVDecision("raised", "TypeError", value, FALSE, "", NoBalance, is_timeout)
        ELSE EVDecision("PROCESSED", "in_charging_window", value, bypass.activate,
                        bypass.reason, energy_balance, is_timeout)

(***************************************************************************)
(* domain/planner.py                                                       *)
(***************************************************************************)
BYPASS_SAFETY_MARGIN_PCT == 115

calculate_energy_balance_without_margin(battery_e4, solar_forecast_kwh, consumption_forecast_kwh, ev_energy_kwh) ==
    LET available == battery_e4 + 10000 * solar_forecast_kwh
        needed == 10000 * (consumption_forecast_kwh + ev_energy_kwh)
        needed_with_margin == 100 * BYPASS_SAFETY_MARGIN_PCT * (consumption_forecast_kwh + ev_energy_kwh)
    IN  [battery_kwh |-> battery_e4,
         solar_kwh |-> 10000 * solar_forecast_kwh,
         consumption_kwh |-> 10000 * consumption_forecast_kwh,
         ev_kwh |-> 10000 * ev_energy_kwh,
         available |-> available,
         needed |-> needed,
         needed_with_margin |-> needed_with_margin,
         sufficient |-> (available >= needed),
         deficit |-> Max(0, needed_with_margin - available),
         surplus |-> Max(0, available - needed_with_margin)]

\* calculate_energy_balance with the default safety_margin 1.15; inputs in
\* kWh except battery_e4 (1/10000 kWh), outputs in 1/10000 kWh.
calculate_energy_balance(battery_e4, solar_forecast_kwh, consumption_forecast_kwh, ev_energy_kwh) ==
    LET available == battery_e4 + 10000 * solar_forecast_kwh
        needed == 10000 * (consumption_forecast_kwh + ev_energy_kwh)
        needed_with_margin == 100 * BYPASS_SAFETY_MARGIN_PCT * (consumption_forecast_kwh + ev_energy_kwh)
    IN  [battery_kwh |-> battery_e4,
         solar_kwh |-> 10000 * solar_forecast_kwh,
         consumption_kwh |-> 10000 * consumption_forecast_kwh,
         ev_kwh |-> 10000 * ev_energy_kwh,
         available |-> available,
         needed |-> needed,
         needed_with_margin |-> needed_with_margin,
         sufficient |-> (available >= needed_with_margin),
         deficit |-> Max(0, needed_with_margin - available),
         surplus |-> Max(0, available - needed_with_margin)]

PlanningInput(soc, cap, reserve, spread, cons, solar, ev, force, disable, preview) ==
    [current_soc_percent |-> soc, battery_capacity_kwh |-> cap,
     min_soc_reserve_percent |-> reserve, safety_spread_percent |-> spread,
     consumption_forecast_kwh |-> cons, solar_forecast_kwh |-> solar,
     ev_energy_kwh |-> ev, force_charge |-> force, disable_charge |-> disable,
     is_preview |-> preview]

NoPlan ==
    [raised |-> FALSE, computed |-> FALSE,
     target_soc_num |-> 0, soc_den |-> 1, planned_charge_e4 |-> 0,
     is_charging_scheduled |-> FALSE, reasoning_prefix |-> "", day_prefix |-> "",
     load_forecast_kwh |-> 0, solar_forecast_kwh |-> 0, current_energy_e4 |-> 0,
     target_energy_e4 |-> 0, reserve_energy_e4 |-> 0, net_load_on_battery_kwh |-> 0]

\* Step 7 of calculate: min(100.0, max(min_soc_reserve_percent, raw)), on
\* numerators over den = 100 * capacity.
clamp_target_soc_no_upper(reserve_percent, raw_num, den) ==
    Max(reserve_percent * den, raw_num)

clamp_target_soc(reserve_percent, raw_num, den) ==
    Min(100 * den, Max(reserve_percent * den, raw_num))

\* Step 3 of calculate: total_load = consumption_forecast_kwh + ev_energy_kwh
total_load_without_ev(input_data) == input_data.consumption_forecast_kwh

total_load(input_data) ==
    input_data.consumption_forecast_kwh + input_data.ev_energy_kwh

\* Step 8 of calculate: needed_kwh = max(0, target_energy - current_energy)
needed_kwh_unclamped(target_energy, current_energy) ==
    target_energy - current_energy

needed_kwh(target_energy, current_energy) ==
    Max(0, target_energy - current_energy)

\* Step 10 of calculate: which branch of the if / elif on the overrides runs
override_force_first(input_data) ==
    IF input_data.force_charge THEN "force"
    ELSE IF input_data.disable_charge THEN "disable"
    ELSE "none"

override_force_unless_full(input_data) ==
    IF input_data.disable_charge THEN "disable"
    ELSE IF input_data.force_charge /\ input_data.current_soc_percent < 100
    THEN "force"
    ELSE "none"

override(input_data) ==
    IF input_data.disable_charge THEN "disable"
    ELSE IF input_data.force_charge THEN "force"
    ELSE "none"

\* Step 7 of calculate divides by battery_capacity_kwh: ZeroDivisionError
\* when it is zero; no other statement of calculate can raise on numbers.
raises_on_empty_battery(input_data) ==
    input_data.battery_capacity_kwh = 0 \/ input_data.current_soc_percent = 0

raises(input_data) == input_data.battery_capacity_kwh = 0

\* ChargePlanner.calculate.  target_soc_percent = target_soc_num / soc_den.
calculate(input_data) ==
    LET cap == input_data.battery_capacity_kwh
        den == 100 * cap
        current_energy == input_data.current_soc_percent * cap * 100
        reserve_energy == input_data.min_soc_reserve_percent * cap * 100
        net_load_on_battery == total_load(input_data) - input_data.solar_forecast_kwh
        \* base_target * 100: reserve% * cap + 100 * max(0, net load)
        base_target_x100 == input_data.min_soc_reserve_percent * cap
                              + 100 * Max(0, net_load_on_battery)
        \* (target_with_safety / capacity) * 100, as a numerator over den
        raw_num == base_target_x100 * (100 + input_data.safety_spread_percent)
        target_soc_num == clamp_target_soc(input_data.min_soc_reserve_percent, raw_num, den)
        \* (target_soc_percent / 100) * capacity in 1/10000 kWh
        target_energy == target_soc_num
        needed == needed_kwh(target_energy, current_energy)
        day == IF input_data.is_preview THEN "Tomorrow's" ELSE "Today's"
        result(prefix, tnum, tenergy, planned, scheduled) ==
            [raised |-> FALSE, computed |-> TRUE,
             target_soc_num |-> tnum, soc_den |-> den,
             planned_charge_e4 |-> planned,
             is_charging_scheduled |-> scheduled,
             reasoning_prefix |-> prefix, day_prefix |-> day,
             load_forecast_kwh |-> input_data.consumption_forecast_kwh,
             solar_forecast_kwh |-> input_data.solar_forecast_kwh,
             current_energy_e4 |-> current_energy,
             target_energy_e4 |-> tenergy,
             reserve_energy_e4 |-> reserve_energy,
             net_load_on_battery_kwh |-> net_load_on_battery]
    IN  IF raises(input_data)
        THEN [NoPlan EXCEPT !.raised = TRUE]
        ELSE IF override(input_data) = "disable"
        THEN result("[DISABLED BY USER] ", target_soc_num, target_energy, 0, FALSE)
        ELSE IF override(input_data) = "force"
        THEN result("[FORCED BY USER] ", 100 * den, 10000 * cap,
                    Max(0, 10000 * cap - current_energy), TRUE)
        ELSE result("", target_soc_num, target_energy, needed, needed > 0)

(***************************************************************************)
(* EVManager.evaluate and ChargePlanner.calculate called on their own      *)
(***************************************************************************)
EvalValues == {-5, 0, 5, EV_MAX_VALUE, EV_MAX_VALUE + 50}

EvalOldValues == {0, 5}

EvalTimes == {Hours(0), 1, Hours(7) - 1, Hours(7), Hours(8), DayTicks - 1}

EvalTimers == {None, 0, 1}

EvalNows == (Hours(EV_CHARGE_TIMEOUT_HOURS) - 1)..(Hours(EV_CHARGE_TIMEOUT_HOURS) + EvalSpan)

EvalBalances == {NoBalance,
                 calculate_energy_balance(100000, 0, 5, 1),
                 calculate_energy_balance(100000, 0, 5, 5)}

\* the values the caller holds as configuration and hands to evaluate
EvalTimeoutHours == {2, EV_CHARGE_TIMEOUT_HOURS}

EvalWindowStarts == {Hours(0), Hours(1)}

EvalWindowEnds == {Hours(7), Hours(8)}

EvalInputs ==
    [new_value : EvalValues, old_value : EvalOldValues, current_time : EvalTimes,
     now : EvalNows, timer_start : EvalTimers, energy_balance : EvalBalances,
     timeout_hours : EvalTimeoutHours, window_start : EvalWindowStarts,
     window_end : EvalWindowEnds]

NoEvalInput ==
    [new_value |-> 0, old_value |-> 0, current_time |-> 0, now |-> 0,
     timer_start |-> None, energy_balance |-> NoBalance,
     timeout_hours |-> EV_CHARGE_TIMEOUT_HOURS,
     window_start |-> Hours(0), window_end |-> Hours(7)]

PlanSocs == {0, 30, 100}

PlanCapacities == {0, 10}

PlanReserves == {0, 15, 100, 120}

PlanSpreads == {0, 10}

PlanConsumptions == {0, 8, 50}

PlanSolars == {0, 3, 8}

PlanEvs == {0, 5}

PlanInputs ==
    {PlanningInput(soc, cap, reserve, spread, cons, solar, ev, force, disable, preview) :
        soc \in PlanSocs, cap \in PlanCapacities, reserve \in PlanReserves,
        spread \in PlanSpreads, cons \in PlanConsumptions, solar \in PlanSolars,
        ev \in PlanEvs, force \in BOOLEAN, disable \in BOOLEAN, preview \in BOOLEAN}

NoPlanInput == PlanningInput(0, 1, 0, 0, 0, 0, 0, FALSE, FALSE, FALSE)

\* The call of coordinator.py: the keyword arguments timeout_hours,
\* window_start and window_end it passes are not parameters of evaluate and
\* do not reach its body.
EvaluateCall ==
    /\ ev_out.result = "none"
    /\ ev_in \in EvalInputs
    /\ ev_out' = evaluate(ev_in.new_value, ev_in.old_value, ev_in.current_time,
                          ev_in.now, ev_in.timer_start, ev_in.energy_balance)
    /\ UNCHANGED <<ev_in, planVars, balVars, fcVars, svVars, coordVars>>

CalculateCall ==
    /\ ~pl_out.computed /\ ~pl_out.raised
    /\ pl_in \in PlanInputs
    /\ pl_out' = calculate(pl_in)
    /\ UNCHANGED <<pl_in, evalVars, balVars, fcVars, svVars, coordVars>>

EvalIdle == ev_in = NoEvalInput /\ ev_out = NoDecision

PlanIdle == pl_in = NoPlanInput /\ pl_out = NoPlan

(***************************************************************************)
(* ChargePlanner.calculate_energy_balance called on its own                *)
(***************************************************************************)
\* battery energy in 1/10000 kWh, the other arguments in kWh
BalBatteries == {0, 20000, 57500, 100000}

BalSolars == {0, 3, 30}

BalConsumptions == {0, 5, 10}

BalEvs == {0, 5, 200}

BalInputs ==
    [battery_e4 : BalBatteries, solar_forecast_kwh : BalSolars,
     consumption_forecast_kwh : BalConsumptions, ev_energy_kwh : BalEvs]

NoBalInput ==
    [battery_e4 |-> 0, solar_forecast_kwh |-> 0, consumption_forecast_kwh |-> 0,
     ev_energy_kwh |-> 0]

BalanceCall ==
    /\ IsNoBalance(bal_out)
    /\ bal_in \in BalInputs
    /\ bal_out' = calculate_energy_balance(bal_in.battery_e4, bal_in.solar_forecast_kwh,
                                           bal_in.consumption_forecast_kwh,
                                           bal_in.ev_energy_kwh)
    /\ UNCHANGED <<bal_in, evalVars, planVars, fcVars, svVars, coordVars>>

BalIdle == bal_in = NoBalInput /\ bal_out = NoBalance

(***************************************************************************)
(* domain/forecaster.py                                                    *)
(***************************************************************************)
HISTORY_DAYS == 21

MAX_POWER_WATTS == 100000

WEEKDAYS == 0..6

ConsumptionRecord(date, weekday, consumption_kwh) ==
    [date |-> date, weekday |-> weekday, consumption_kwh |-> consumption_kwh]

Rational(num, den) == [num |-> num, den |-> den]

\* _weekday_cache = None
NoCache == <<>>

IsNoCache(cache) == DOMAIN cache = {}

\* ConsumptionForecaster.__init__
ConsumptionForecaster(history) ==
    [history |-> history,
     current_day_kwh |-> 0,
     last_reading_time |-> None,
     last_reading_value |-> None,
     weekday_cache |-> NoCache,
     cache_valid |-> FALSE]

\* a power reading: a float that is finite (watts) or not (nan, inf)
Finite(watts) == [kind |-> "finite", watts |-> watts]

NonFinite(kind) == [kind |-> kind, watts |-> 0]

isfinite(power) == power.kind = "finite"

clamp_power_no_lower(watts) == Min(MAX_POWER_WATTS, watts)

\* max(0.0, min(100000.0, power_watts))
clamp_power(watts) == Max(0, Min(MAX_POWER_WATTS, watts))

skips_integration_from_one_hour(time_diff) ==
    time_diff <= 0 \/ time_diff >= Hours(1)

\* time_diff_hours <= 0 or time_diff_hours > 1.0, on a difference in ticks
skips_integration(time_diff) ==
    time_diff <= 0 \/ time_diff > Hours(1)

\* add_power_reading: the forecaster it leaves behind
add_power_reading(f, power, now) ==
    IF ~isfinite(power) THEN f
    ELSE LET power_watts == clamp_power(power.watts)
             recorded == [f EXCEPT !.last_reading_time = now,
                                   !.last_reading_value = power_watts]
         IN  IF f.last_reading_time = None THEN recorded
             ELSE LET time_diff == now - f.last_reading_time
                  IN  IF skips_integration(time_diff) THEN recorded
                      ELSE [recorded EXCEPT !.current_day_kwh =
                              f.current_day_kwh
                                + (f.last_reading_value + power_watts) * time_diff]

invalidate_cache_noop(f) == f

\* _invalidate_cache
invalidate_cache(f) ==
    [f EXCEPT !.weekday_cache = NoCache, !.cache_valid = FALSE]

RECURSIVE InsertByDate(_, _)
\* r put behind the last record of the sorted sequence whose date is not later
InsertByDate(sorted, r) ==
    IF sorted = <<>> THEN <<r>>
    ELSE IF sorted[Len(sorted)].date <= r.date THEN Append(sorted, r)
    ELSE Append(InsertByDate(SubSeq(sorted, 1, Len(sorted) - 1), r),
                sorted[Len(sorted)])

RECURSIVE SortByDate(_)
\* list.sort(key=lambda x: x["date"]): ascending and stable
SortByDate(history) ==
    IF history = <<>> THEN <<>>
    ELSE InsertByDate(SortByDate(SubSeq(history, 1, Len(history) - 1)),
                      history[Len(history)])

\* history[-n:]
LastRecords(history, n) ==
    IF Len(history) <= n THEN history
    ELSE SubSeq(history, Len(history) - n + 1, Len(history))

prune_unsorted(history) ==
    IF Len(history) > HISTORY_DAYS
    THEN LastRecords(history, HISTORY_DAYS)
    ELSE history

\* close_day, "Prune old history"
prune(history) ==
    IF Len(history) > HISTORY_DAYS
    THEN LastRecords(SortByDate(history), HISTORY_DAYS)
    ELSE history

\* the record close_day builds: the day before now and its weekday
closed_record(f, now) ==
    LET yesterday == now - DayTicks
        date == yesterday \div DayTicks
    IN  ConsumptionRecord(date, date % 7, f.current_day_kwh)

reset_day_keeping_last_reading(f) == [f EXCEPT !.current_day_kwh = 0]

\* close_day, "Reset for new day"
reset_day(f) ==
    [f EXCEPT !.current_day_kwh = 0,
              !.last_reading_time = None,
              !.last_reading_value = None]

\* close_day: the forecaster it leaves behind
close_day(f, now) ==
    LET appended == [f EXCEPT !.history = prune(Append(f.history, closed_record(f, now)))]
        invalidated == invalidate_cache(appended)
    IN  reset_day(invalidated)

RECURSIVE SumOfWeekday(_, _)
SumOfWeekday(history, weekday) ==
    IF history = <<>> THEN 0
    ELSE (IF history[1].weekday = weekday THEN history[1].consumption_kwh ELSE 0)
            + SumOfWeekday(Tail(history), weekday)

RECURSIVE CountOfWeekday(_, _)
CountOfWeekday(history, weekday) ==
    IF history = <<>> THEN 0
    ELSE (IF history[1].weekday = weekday THEN 1 ELSE 0)
            + CountOfWeekday(Tail(history), weekday)

\* sum(values) / len(values) if values else 0.0
weekday_average(history, weekday) ==
    IF CountOfWeekday(history, weekday) > 0
    THEN Rational(SumOfWeekday(history, weekday), CountOfWeekday(history, weekday))
    ELSE Rational(0, 1)

\* _ensure_cache
ensure_cache(f) ==
    IF f.cache_valid /\ ~IsNoCache(f.weekday_cache) THEN f
    ELSE [f EXCEPT !.weekday_cache = [w \in WEEKDAYS |-> weekday_average(f.history, w)],
                   !.cache_valid = TRUE]

\* get_weekday_average: what it returns, _weekday_cache.get(weekday, 0.0)
get_weekday_average(f, weekday) ==
    LET cache == ensure_cache(f).weekday_cache
    IN  IF weekday \in DOMAIN cache THEN cache[weekday] ELSE Rational(0, 1)

get_consumption_forecast_without_fallback(f, for_tomorrow, now, minimum_fallback) ==
    LET target_date == IF for_tomorrow THEN now + DayTicks ELSE now
    IN  get_weekday_average(f, (target_date \div DayTicks) % 7)

\* get_consumption_forecast: what it returns; minimum_fallback is in the unit
\* of the accumulator
get_consumption_forecast(f, for_tomorrow, now, minimum_fallback) ==
    LET target_date == IF for_tomorrow THEN now + DayTicks ELSE now
        weekday == (target_date \div DayTicks) % 7
        consumption == get_weekday_average(f, weekday)
    IN  IF consumption.num < minimum_fallback * consumption.den
        THEN Rational(minimum_fallback, 1)
        ELSE consumption

RECURSIVE WithoutDate(_, _)
\* the history without its first record of the date
WithoutDate(history, date) ==
    IF history = <<>> THEN <<>>
    ELSE IF history[1].date = date THEN Tail(history)
    ELSE <<history[1]>> \o WithoutDate(Tail(history), date)

\* delete_record: removes one entry by date if present and invalidates the
\* cache; the forecaster it leaves behind
delete_record(f, date) ==
    LET kept == WithoutDate(f.history, date)
    IN  IF kept = f.history THEN f
        ELSE invalidate_cache([f EXCEPT !.history = kept])

\* ConsumptionForecaster.to_dict
forecaster_to_dict(f) == [history |-> f.history]

\* ConsumptionForecaster.from_dict
forecaster_from_dict(data) == ConsumptionForecaster(data.history)

(***************************************************************************)
(* The forecaster called by its host                                       *)
(***************************************************************************)
FcPowers == {NonFinite("nan"), NonFinite("inf"), Finite(-500), Finite(1000),
             Finite(2 * MAX_POWER_WATTS)}

\* the timestamps of the readings: differences from -(1 h + 1 tick) to 1 h + 1 tick
FcTimes == 0..(Hours(1) + 1)

\* the day close_day is called for, relative to the calendar: the day that
\* ended, or an earlier one (the clock was set back)
FcDayJumps == {0, -3}

FcDeleteDates == {0, HISTORY_DAYS - 1, HISTORY_DAYS + 1}

Midnight(day) == day * DayTicks

RECURSIVE LoadedHistory(_)
\* a stored history of n consecutive days, as from_dict loads it
LoadedHistory(n) ==
    IF n = 0 THEN <<>>
    ELSE Append(LoadedHistory(n - 1), ConsumptionRecord(n, n % 7, 1000 * (1 + (n % 3))))

FcCall(op, arg, power, value, record, ok) ==
    [op |-> op, arg |-> arg, power |-> power, value |-> value,
     record |-> record, ok |-> ok,
     for_tomorrow |-> FALSE, minimum_fallback |-> 0]

\* kWh in the unit of the accumulator
KWh(kwh) == kwh * 2000 * TicksPerHour

\* minimum_consumption_fallback: none, less than a day of the stored history,
\* the default of 10 kWh
FcFallbacks == {0, 2000, KWh(10)}

\* the times of day at which a plan is calculated: at midnight, an hour before
FcPlanHours == {0, 23}

NoFcCall ==
    FcCall("none", 0, Finite(0), Rational(0, 1), ConsumptionRecord(0, 0, 0), FALSE)

LastCloseDay == HISTORY_DAYS - 1 + MaxCloseDays

\* _handle_power_change: a reading of the power sensor
AddPowerReading ==
    /\ fc.current_day_kwh <= MaxDayEnergy
    /\ \E power \in FcPowers, now \in FcTimes :
         /\ fc' = add_power_reading(fc, power, now)
         /\ fc_ret' = FcCall("add_power_reading", now, power,
                             Rational(fc'.current_day_kwh, 1), NoFcCall.record, FALSE)
    /\ UNCHANGED <<fc_day, evalVars, planVars, balVars, svVars, coordVars>>

\* _handle_midnight
CloseDay ==
    /\ fc_day < LastCloseDay
    /\ \E jump \in FcDayJumps :
         LET now == Midnight(fc_day + 2 + jump) IN
         /\ fc' = close_day(fc, now)
         /\ fc_ret' = FcCall("close_day", now, NoFcCall.power, NoFcCall.value,
                             closed_record(fc, now), FALSE)
    /\ fc_day' = fc_day + 1
    /\ UNCHANGED <<evalVars, planVars, balVars, svVars, coordVars>>

\* a weekday average sensor, or get_consumption_forecast, reads an average
GetWeekdayAverage ==
    /\ \E weekday \in WEEKDAYS :
         /\ fc' = ensure_cache(fc)
         /\ fc_ret' = FcCall("get_weekday_average", weekday, NoFcCall.power,
                             get_weekday_average(fc, weekday), NoFcCall.record, FALSE)
    /\ UNCHANGED <<fc_day, evalVars, planVars, balVars, svVars, coordVars>>

\* recalculate_plan, handle_ev_energy_change: the consumption forecast is read
GetConsumptionForecast ==
    /\ \E for_tomorrow \in BOOLEAN, hour \in FcPlanHours, minimum_fallback \in FcFallbacks :
         LET now == Midnight(fc_day + 1) + Hours(hour) IN
         /\ fc' = ensure_cache(fc)
         /\ fc_ret' = [FcCall("get_consumption_forecast", now, NoFcCall.power,
                              get_consumption_forecast(fc, for_tomorrow, now, minimum_fallback),
                              NoFcCall.record, FALSE)
                          EXCEPT !.for_tomorrow = for_tomorrow,
                                 !.minimum_fallback = minimum_fallback]
    /\ UNCHANGED <<fc_day, evalVars, planVars, balVars, svVars, coordVars>>

\* _handle_delete_consumption_record
DeleteRecord ==
    /\ \E date \in FcDeleteDates :
         /\ fc' = delete_record(fc, date)
         /\ fc_ret' = FcCall("delete_record", date, NoFcCall.power, NoFcCall.value,
                             NoFcCall.record, fc'.history # fc.history)
    /\ UNCHANGED <<fc_day, evalVars, planVars, balVars, svVars, coordVars>>

\* _save_data and, after a restart, _load_data
ForecasterReload ==
    /\ fc' = forecaster_from_dict(forecaster_to_dict(fc))
    /\ fc_ret' = FcCall("from_dict", 0, NoFcCall.power, NoFcCall.value,
                        NoFcCall.record, FALSE)
    /\ UNCHANGED <<fc_day, evalVars, planVars, balVars, svVars, coordVars>>

FcIdle ==
    /\ fc = ConsumptionForecaster(<<>>)
    /\ fc_ret = NoFcCall
    /\ fc_day = HISTORY_DAYS - 1

(***************************************************************************)
(* domain/savings_calculator.py                                            *)
(***************************************************************************)
SAVINGS_HISTORY_DAYS == 30

SAVINGS_STORED_RECORDS == 30

DaysPerMonth == 31

SavingsRecord(date, charged_kwh, offpeak_cost, peak_cost, savings) ==
    [date |-> date, charged_kwh |-> charged_kwh, offpeak_cost |-> offpeak_cost,
     peak_cost |-> peak_cost, savings |-> savings]

\* current_month = "": no month yet
NoMonth == None

SavingsState ==
    [total_charged_kwh |-> 0,
     total_savings_eur |-> 0,
     total_cost_eur |-> 0,
     theoretical_cost_eur |-> 0,
     monthly_charged_kwh |-> 0,
     monthly_savings_eur |-> 0,
     current_month |-> NoMonth,
     lifetime_charged_kwh |-> 0,
     lifetime_savings_eur |-> 0,
     history |-> <<>>]

\* SavingsCalculator.__init__
SavingsCalculator(price_peak, price_offpeak, price_f1, price_f2, price_f3, pricing_mode) ==
    [price_peak |-> price_peak, price_offpeak |-> price_offpeak,
     price_f1 |-> price_f1, price_f2 |-> price_f2, price_f3 |-> price_f3,
     pricing_mode |-> pricing_mode,
     state |-> SavingsState]

\* get_night_rate, in 1/16000 EUR per kWh
get_night_rate(calc) ==
    IF calc.pricing_mode = "three_tier" THEN 16 * calc.price_f3
    ELSE 16 * calc.price_offpeak

get_day_rate_peak_only(calc) ==
    IF calc.pricing_mode = "three_tier" THEN 16 * calc.price_f1
    ELSE 16 * calc.price_peak

\* get_day_rate, in 1/16000 EUR per kWh: (11 * F1 + 5 * F2) / 16 or the peak price
get_day_rate(calc) ==
    IF calc.pricing_mode = "three_tier"
    THEN 11 * calc.price_f1 + 5 * calc.price_f2
    ELSE 16 * calc.price_peak

\* 1/10 kWh x 1/16000 EUR per kWh, per cent
CostUnitsPerCent == 10 * 16 * 10

\* round(x, 2) of x = units / CostUnitsPerCent cents; tie says where a float
\* that stands for exactly half a cent goes
round_cents(units, tie) ==
    LET whole == units \div CostUnitsPerCent
        rest == units % CostUnitsPerCent
    IN  IF 2 * rest < CostUnitsPerCent THEN whole
        ELSE IF 2 * rest > CostUnitsPerCent THEN whole + 1
        ELSE IF tie = "up" THEN whole + 1 ELSE whole

\* strftime("%Y-%m")
month_token(date) == date \div DaysPerMonth

\* record_charge_session: the SavingsRecord it builds
session_record(calc, charged_kwh, charge_date, ties) ==
    LET night_rate == get_night_rate(calc)
        day_rate == get_day_rate(calc)
        offpeak_cost == charged_kwh * night_rate
        peak_cost == charged_kwh * day_rate
        savings == peak_cost - offpeak_cost
    IN  SavingsRecord(charge_date, charged_kwh,
                      round_cents(offpeak_cost, ties.offpeak_cost),
                      round_cents(peak_cost, ties.peak_cost),
                      round_cents(savings, ties.savings))

\* the list comprehension of _update_state: the entries h with h["date"] >= cutoff
RECURSIVE NotOlderThan(_, _)
NotOlderThan(history, cutoff) ==
    IF history = <<>> THEN <<>>
    ELSE (IF history[1].date >= cutoff THEN <<history[1]>> ELSE <<>>)
            \o NotOlderThan(Tail(history), cutoff)

keeps_monthly_on_rollover(st, month_str) ==
    [st EXCEPT !.current_month = month_str]

\* _update_state, "Check for month rollover"
month_rollover(st, month_str) ==
    IF st.current_month # month_str
    THEN [st EXCEPT !.monthly_charged_kwh = 0,
                    !.monthly_savings_eur = 0,
                    !.current_month = month_str]
    ELSE st

prune_history_by_count(history, today) ==
    LastRecords(history, SAVINGS_HISTORY_DAYS)

\* _update_state, "Prune old history (keep last 30 days)"
prune_history(history, today) ==
    NotOlderThan(history, today - SAVINGS_HISTORY_DAYS)

\* _update_state: the SavingsState it leaves behind
update_state(st, record, month_str, today) ==
    LET s1 == month_rollover(st, month_str)
    IN  [s1 EXCEPT
            !.total_charged_kwh = @ + record.charged_kwh,
            !.total_savings_eur = @ + record.savings,
            !.total_cost_eur = @ + record.offpeak_cost,
            !.theoretical_cost_eur = @ + record.peak_cost,
            !.monthly_charged_kwh = @ + record.charged_kwh,
            !.monthly_savings_eur = @ + record.savings,
            !.lifetime_charged_kwh = @ + record.charged_kwh,
            !.lifetime_savings_eur = @ + record.savings,
            !.history = prune_history(Append(s1.history, record), today)]

\* record_charge_session: the calculator it leaves behind
record_charge_session(calc, charged_kwh, charge_date, today, ties) ==
    [calc EXCEPT !.state =
        update_state(calc.state, session_record(calc, charged_kwh, charge_date, ties),
                     month_token(charge_date), today)]

\* SavingsState.to_dict
state_to_dict(st) ==
    [st EXCEPT !.history = LastRecords(st.history, SAVINGS_STORED_RECORDS)]

\* SavingsState.from_dict: every key of the dictionary is present
state_from_dict(data) ==
    [total_charged_kwh |-> data.total_charged_kwh,
     total_savings_eur |-> data.total_savings_eur,
     total_cost_eur |-> data.total_cost_eur,
     theoretical_cost_eur |-> data.theoretical_cost_eur,
     monthly_charged_kwh |-> data.monthly_charged_kwh,
     monthly_savings_eur |-> data.monthly_savings_eur,
     current_month |-> data.current_month,
     lifetime_charged_kwh |-> data.lifetime_charged_kwh,
     lifetime_savings_eur |-> data.lifetime_savings_eur,
     history |-> data.history]

\* SavingsCalculator.to_dict
savings_to_dict(calc) == [calc EXCEPT !.state = state_to_dict(calc.state)]

\* SavingsCalculator.from_dict
savings_from_dict(data) ==
    [SavingsCalculator(data.price_peak, data.price_offpeak, data.price_f1,
                       data.price_f2, data.price_f3, data.pricing_mode)
        EXCEPT !.state = state_from_dict(data.state)]

(***************************************************************************)
(* The savings calculator called by its host                               *)
(***************************************************************************)
\* the default prices in two_tier and in three_tier mode, and other prices
SvCalculators ==
    {SavingsCalculator(250, 120, 250, 200, 120, "two_tier"),
     SavingsCalculator(250, 120, 250, 200, 120, "three_tier"),
     SavingsCalculator(350, 100, 250, 200, 120, "two_tier")}

\* session.charged_kwh > 0: 0.4, 1.1 and 3.5 kWh
SvCharged == {4, 11, 35}

SvTies == [offpeak_cost : {"down", "up"}, peak_cost : {"down", "up"},
           savings : {"down", "up"}]

RECURSIVE StoredSessions(_, _)
\* a calculator after one session of 1 kWh on each of the days 1 .. n
StoredSessions(calc, n) ==
    IF n = 0 THEN calc
    ELSE record_charge_session(StoredSessions(calc, n - 1), 10, n, n,
                               [offpeak_cost |-> "down", peak_cost |-> "down",
                                savings |-> "down"])

SvCall(op, charged_kwh, charge_date, record) ==
    [op |-> op, charged_kwh |-> charged_kwh, charge_date |-> charge_date,
     record |-> record]

NoSvCall == SvCall("none", 0, 0, SavingsRecord(0, 0, 0, 0, 0))

\* the days of the host: the first ones, and the same a month later
SvFirstDay == SAVINGS_HISTORY_DAYS

SvLastNearDay == SvFirstDay + MaxSavingsDays

\* _stop_charging: a session that charged energy is recorded
RecordChargeSession ==
    /\ sv_count < MaxSessions
    /\ \E charged_kwh \in SvCharged, ties \in SvTies :
         /\ sv' = record_charge_session(sv, charged_kwh, sv_today, sv_today, ties)
         /\ sv_ret' = SvCall("record_charge_session", charged_kwh, sv_today,
                             session_record(sv, charged_kwh, sv_today, ties))
    /\ sv_count' = sv_count + 1
    /\ UNCHANGED <<sv_today, evalVars, planVars, balVars, fcVars, coordVars>>

\* date.today() moves on by a day, or by a month without sessions
SavingsNextDay ==
    /\ \E days \in {1, DaysPerMonth} :
         /\ \/ sv_today + days <= SvLastNearDay
            \/ days = DaysPerMonth /\ sv_today <= SvLastNearDay
         /\ sv_today' = sv_today + days
    /\ UNCHANGED <<sv, sv_ret, sv_count, evalVars, planVars, balVars, fcVars, coordVars>>

\* _save_data and, after a restart, _load_data
SavingsReload ==
    /\ sv' = savings_from_dict(savings_to_dict(sv))
    /\ sv_ret' = SvCall("from_dict", 0, sv_today, NoSvCall.record)
    /\ UNCHANGED <<sv_today, sv_count, evalVars, planVars, balVars, fcVars, coordVars>>

SvIdle ==
    /\ sv = SavingsCalculator(250, 120, 250, 200, 120, "two_tier")
    /\ sv_ret = NoSvCall
    /\ sv_today = SvFirstDay
    /\ sv_count = 0

(***************************************************************************)
(* core/state.py: NidiaState and its parts                                 *)
(***************************************************************************)
DEFAULT_BATTERY_CAPACITY == 10

DEFAULT_MIN_SOC_RESERVE == 15

DEFAULT_SAFETY_SPREAD == 10

MINIMUM_CONSUMPTION_FALLBACK == 10

\* the configured window, at the resolution of a tick (00:01 is tick 0)
window_start_time == Hours(0)

window_end_time == Hours(7)

EVState(energy_kwh, timer_start, bypass_active) ==
    [energy_kwh |-> energy_kwh, timer_start |-> timer_start,
     bypass_active |-> bypass_active]

\* ChargePlan as recalculate_plan fills it; reasoning, load_forecast_kwh and
\* solar_forecast_kwh are copies of the result that only sensors display
ChargePlan(result) ==
    [target_soc_num |-> result.target_soc_num, soc_den |-> result.soc_den,
     planned_charge_e4 |-> result.planned_charge_e4,
     is_charging_scheduled |-> result.is_charging_scheduled]

\* ChargeSession; of start_time and end_time only "is not None" is kept
ChargeSession(start_time, start_soc, end_time, end_soc, charged_e4) ==
    [start_time |-> start_time, start_soc |-> start_soc, end_time |-> end_time,
     end_soc |-> end_soc, charged_e4 |-> charged_e4]

NewChargeSession == ChargeSession(FALSE, 0, FALSE, None, 0)

\* The runtime fields of NidiaState that a handler reads back; current_soc,
\* last_run_summary and last_run_charged_kwh are written for display only.
NidiaState ==
    [is_charging_active |-> FALSE,
     force_charge_enabled |-> FALSE,
     disable_charge_enabled |-> FALSE,
     current_plan |-> ChargePlan(NoPlan),
     current_session |-> NewChargeSession,
     ev |-> EVState(0, None, FALSE),
     is_in_charging_window |-> FALSE]

HardwareController == [bypass_state |-> FALSE, inverter_state |-> FALSE]

\* The coordinator with everything its handlers read and write: the state,
\* the hardware controller, the bypass switch entity and the latest decision.
\* what is kept of the EVDecision a handler obtained
DecisionSummary(dec) ==
    [result |-> dec.result, value |-> dec.value,
     bypass_should_activate |-> dec.bypass_should_activate,
     is_timeout |-> dec.is_timeout]

World == [state |-> state, hardware |-> hardware, switch |-> switch_bypass,
          decision |-> decision]

SetWorld(w) ==
    /\ state' = w.state
    /\ hardware' = w.hardware
    /\ switch_bypass' = w.switch
    /\ decision' = w.decision

ev_reset_keeping_timer(w) ==
    [w EXCEPT !.state.ev.energy_kwh = 0, !.state.ev.bypass_active = FALSE]

\* EVState.reset
ev_reset(w) == [w EXCEPT !.state.ev = EVState(0, None, FALSE)]

\* NidiaState.reset_overrides
reset_overrides(w) ==
    [w EXCEPT !.state.force_charge_enabled = FALSE,
              !.state.disable_charge_enabled = FALSE]

(***************************************************************************)
(* core/hardware.py.  ok tells whether _call_switch_service succeeds (the  *)
(* entity is configured and one of the MAX_RETRIES attempts goes through). *)
(***************************************************************************)
MAX_RETRIES == 3

\* _call_switch_service: configured tells whether the entity id is set,
\* failures how many attempts in a row raise before one goes through;
\* calls counts the hass.services.async_call attempts made
call_switch_service(configured, failures) ==
    [success |-> configured /\ failures < MAX_RETRIES,
     calls |-> IF configured THEN Min(failures + 1, MAX_RETRIES) ELSE 0]

bypass_call_always_needed(w, enable) == TRUE

\* set_bypass: "Skip if already in desired state" does not hold
bypass_call_needed(w, enable) == w.hardware.bypass_state # enable

set_bypass(w, enable, ok) ==
    IF ~bypass_call_needed(w, enable) THEN w
    ELSE IF ok
    THEN [w EXCEPT !.hardware.bypass_state = enable,
                   !.switch = enable,
                   !.state.ev.bypass_active = enable]
    ELSE w

set_inverter(w, enable, ok) ==
    IF ok THEN [w EXCEPT !.hardware.inverter_state = enable] ELSE w

\* synced: the switch entity is configured and its state is known
sync_bypass_state(w, synced) ==
    IF synced /\ w.switch # w.hardware.bypass_state
    THEN [w EXCEPT !.hardware.bypass_state = w.switch,
                   !.state.ev.bypass_active = w.switch]
    ELSE w

(***************************************************************************)
(* coordinator.py.  env holds what the handlers read from the outside      *)
(* while they run: the SOC sensor, the two solar forecast sensors, the     *)
(* consumption forecast and the outcome of the switch service calls.       *)
(***************************************************************************)
CoordSocs == {20, 100}

CoordSolars == {0, 30}

CoordConsumptions == {MINIMUM_CONSUMPTION_FALLBACK}

CoordValues == {-5, 0, 5, EV_MAX_VALUE + 50}

CoordSolarsTomorrow == {0}

Envs == [soc : CoordSocs, solar_today : CoordSolars, solar_tomorrow : CoordSolarsTomorrow,
         cons : CoordConsumptions, bypass_ok : BOOLEAN, inverter_ok : BOOLEAN]

recalculate_plan(w, for_preview, env) ==
    LET w1 == w
        solar_forecast == IF for_preview THEN env.solar_tomorrow ELSE env.solar_today
        planning_input ==
            PlanningInput(env.soc, DEFAULT_BATTERY_CAPACITY, DEFAULT_MIN_SOC_RESERVE,
                          DEFAULT_SAFETY_SPREAD, env.cons, solar_forecast,
                          w1.state.ev.energy_kwh, w1.state.force_charge_enabled,
                          w1.state.disable_charge_enabled, for_preview)
        result == calculate(planning_input)
    IN  [w1 EXCEPT !.state.current_plan = ChargePlan(result)]

\* lines 862-873 of handle_ev_energy_change: the PROCESSED branch
apply_processed(w, dec, t, env) ==
    LET w1 == IF dec.value > 0 /\ w.state.ev.timer_start = None
              THEN [w EXCEPT !.state.ev.timer_start = t]
              ELSE w
        w2 == set_bypass(w1, dec.bypass_should_activate, env.bypass_ok)
    IN  [w2 EXCEPT !.state.ev.bypass_active = dec.bypass_should_activate]

\* The call at lines 829-839 also names timeout_hours, window_start and
\* window_end, for which evaluate has no parameters: the six it has are bound.
handle_ev_energy_change(w, value, t, env) ==
    LET old_value == w.state.ev.energy_kwh
        w0 == w
        battery_energy == env.soc * DEFAULT_BATTERY_CAPACITY * 100
        energy_balance == calculate_energy_balance(battery_energy, env.solar_today,
                                                   env.cons, value)
        dec == evaluate(value, old_value, TimeOfDay(t), t,
                        w.state.ev.timer_start, energy_balance)
        w1 == [w0 EXCEPT !.state.ev.energy_kwh = dec.value,
                         !.decision = DecisionSummary(dec)]
        w2 == IF dec.result = "SAVED" THEN w1
              ELSE IF dec.result = "RESET"
              THEN set_bypass(ev_reset(w1), FALSE, env.bypass_ok)
              ELSE apply_processed(w1, dec, t, env)
    IN  recalculate_plan(w2, ~w2.state.is_in_charging_window, env)

handle_ev_restored(w, value, t) ==
    LET w1 == [w EXCEPT !.state.ev.energy_kwh = value]
    IN  IF value > 0 THEN [w1 EXCEPT !.state.ev.timer_start = t] ELSE w1

start_charging(w, t, env) ==
    LET w1 == set_inverter(w, TRUE, env.inverter_ok)
    IN  [w1 EXCEPT !.state.current_session = ChargeSession(TRUE, env.soc, FALSE, None, 0),
                   !.state.is_charging_active = TRUE]

\* _stop_charging from "await self.hardware.set_inverter(False)" on: the
\* guard on is_charging_active has been passed, the session is the one
\* state.current_session holds when the await returns
finish_stop_charging(w, t, env) ==
    LET w2 == set_inverter(w, FALSE, env.inverter_ok)
        start_soc == w.state.current_session.start_soc
        charged == (env.soc - start_soc) * DEFAULT_BATTERY_CAPACITY * 100
    IN  [w2 EXCEPT !.state.current_session.end_time = TRUE,
                   !.state.current_session.end_soc = env.soc,
                   !.state.current_session.charged_e4 = charged,
                   !.state.is_charging_active = FALSE]

stop_charging(w, t, env) ==
    IF ~w.state.is_charging_active THEN w
    ELSE finish_stop_charging(w, t, env)

handle_window_start(w, t, env) ==
    LET w1 == [w EXCEPT !.state.is_in_charging_window = TRUE]
        ev_energy == w1.state.ev.energy_kwh
        w2 == IF ev_energy > 0
              THEN handle_ev_energy_change(w1, ev_energy, t, env)
              ELSE recalculate_plan(w1, FALSE, env)
        w3 == w2
    IN  IF w3.state.current_plan.is_charging_scheduled
        THEN start_charging(w3, t, env)
        ELSE w3

\* _handle_window_end after "await self._stop_charging()"
finish_window_end(w2, t, env) ==
    LET w3 == set_bypass(ev_reset(w2), FALSE, env.bypass_ok)
        w4 == reset_overrides(w3)
    IN  [w4 EXCEPT !.state.current_session = NewChargeSession]

handle_window_end(w, t, env) ==
    LET w1 == [w EXCEPT !.state.is_in_charging_window = FALSE]
        w2 == stop_charging(w1, t, env)
    IN  finish_window_end(w2, t, env)

\* the SOC test of _monitor_charging
target_reached(w, env) ==
    LET plan == w.state.current_plan
    IN  env.soc * plan.soc_den >= plan.target_soc_num \/ env.soc >= 99

\* session.charged_kwh as _stop_charging hands it to record_charge_session,
\* in tenths of a kWh
session_charged_kwh(session) == session.charged_e4 \div 1000

monitor_charging(w, t, env) ==
    IF ~w.state.is_charging_active THEN w
    ELSE LET w1 == w
             plan == w.state.current_plan
         IN  IF target_reached(w, env)
             THEN stop_charging(w1, t, env)
             ELSE w1

set_force_charge_only(w, enabled, env) ==
    recalculate_plan([w EXCEPT !.state.force_charge_enabled = enabled], TRUE, env)

set_force_charge(w, enabled, env) ==
    LET w1 == [w EXCEPT !.state.force_charge_enabled = enabled]
        w2 == IF enabled THEN [w1 EXCEPT !.state.disable_charge_enabled = FALSE]
              ELSE w1
    IN  recalculate_plan(w2, TRUE, env)

set_disable_charge(w, enabled, env) ==
    LET w1 == [w EXCEPT !.state.disable_charge_enabled = enabled]
        w2 == IF enabled THEN [w1 EXCEPT !.state.force_charge_enabled = FALSE]
              ELSE w1
    IN  recalculate_plan(w2, TRUE, env)

\* NidiaCoordinator.__init__ and async_init on a (re)start of the integration
coordinator_init(w, synced) ==
    sync_bypass_state([state |-> NidiaState, hardware |-> HardwareController,
                       switch |-> w.switch, decision |-> DecisionSummary(NoDecision)],
                      synced)

\* EVEnergyNumber.async_added_to_hass: restored is the state the number
\* entity was last written with, or None when there is no last state
async_added_to_hass(w, restored, t) ==
    IF restored # None /\ 0 <= restored /\ restored <= 200
    THEN handle_ev_restored(w, restored, t)
    ELSE w

(***************************************************************************)
(* services/execution_service.py: the bypass of the ExecutionService, and  *)
(* the bypass requests made of it and of the HardwareController            *)
(***************************************************************************)
\* a bypass request: calls counts the hass.services.async_call attempts it
\* made; success is what set_bypass returned (for the ExecutionService,
\* whose methods return nothing: the request did not end in a failed call)
BpCall(op, enable, calls, success) ==
    [op |-> op, enable |-> enable, calls |-> calls, success |-> success]

\* configured: CONF_BATTERY_BYPASS_SWITCH / bypass_switch_entity is set;
\* exec_active: ExecutionService._bypass_switch_active; exec_switch: the
\* switch entity it drives
BypassRequests(configured) ==
    [configured |-> configured, exec_active |-> FALSE, exec_switch |-> FALSE,
     requests |-> 0, ret |-> BpCall("none", FALSE, 0, FALSE)]

NoBypassRequests == BypassRequests(TRUE)

\* ExecutionService.enable_bypass; call_raises: the service call raises
enable_bypass(b, call_raises) ==
    IF ~b.configured THEN [b EXCEPT !.ret = BpCall("enable_bypass", TRUE, 0, FALSE)]
    ELSE IF b.exec_active THEN [b EXCEPT !.ret = BpCall("enable_bypass", TRUE, 0, TRUE)]
    ELSE IF call_raises THEN [b EXCEPT !.ret = BpCall("enable_bypass", TRUE, 1, FALSE)]
    ELSE [b EXCEPT !.exec_switch = TRUE, !.exec_active = TRUE,
                   !.ret = BpCall("enable_bypass", TRUE, 1, TRUE)]

\* ExecutionService.disable_bypass
disable_bypass(b, call_raises) ==
    IF ~b.configured THEN [b EXCEPT !.ret = BpCall("disable_bypass", FALSE, 0, FALSE)]
    ELSE IF ~b.exec_active THEN [b EXCEPT !.ret = BpCall("disable_bypass", FALSE, 0, TRUE)]
    ELSE IF call_raises THEN [b EXCEPT !.ret = BpCall("disable_bypass", FALSE, 1, FALSE)]
    ELSE [b EXCEPT !.exec_switch = FALSE, !.exec_active = FALSE,
                   !.ret = BpCall("disable_bypass", FALSE, 1, TRUE)]

\* HardwareController.set_bypass(enable) called on its own
SetBypass ==
    /\ bp.requests < MaxBypassRequests
    /\ \E enable \in BOOLEAN, failures \in 0..MAX_RETRIES :
         LET r == call_switch_service(bp.configured, failures)
             needed == bypass_call_needed(World, enable)
         IN  /\ SetWorld(set_bypass(World, enable, r.success))
             /\ bp' = [bp EXCEPT !.requests = @ + 1,
                                 !.ret = BpCall("set_bypass", enable,
                                                IF needed THEN r.calls ELSE 0,
                                                IF needed THEN r.success ELSE TRUE)]
    /\ UNCHANGED <<clock, due, rl, taskVars, evalVars, planVars, balVars, fcVars,
                   svVars>>

EnableBypass ==
    /\ bp.requests < MaxBypassRequests
    /\ \E call_raises \in BOOLEAN :
         bp' = [enable_bypass(bp, call_raises) EXCEPT !.requests = @ + 1]
    /\ UNCHANGED <<clock, due, state, hardware, switch_bypass, decision, rl,
                   taskVars, evalVars, planVars, balVars, fcVars, svVars>>

DisableBypass ==
    /\ bp.requests < MaxBypassRequests
    /\ \E call_raises \in BOOLEAN :
         bp' = [disable_bypass(bp, call_raises) EXCEPT !.requests = @ + 1]
    /\ UNCHANGED <<clock, due, state, hardware, switch_bypass, decision, rl,
                   taskVars, evalVars, planVars, balVars, fcVars, svVars>>

(***************************************************************************)
(* coordinator.py: the rate limiter of the services                        *)
(***************************************************************************)
SERVICE_COOLDOWN_SECONDS == 60

RateLimitedServices == {"recalculate", "force_charge", "disable_charge"}

\* a service call and what _check_rate_limit answered
RlCall(service_name, allowed, at) ==
    [service_name |-> service_name, allowed |-> allowed, at |-> at]

\* _last_service_call is empty after __init__: get(service_name, 0) gives 0.
\* now is time.time(), seconds since 1970; calls and accepted remember, for
\* the run of this coordinator, how many calls each service got and when
\* its last accepted call was
NoServiceCallsAt(now) ==
    [now |-> now, ticks |-> 0,
     last_service_call |-> [s \in RateLimitedServices |-> 0],
     calls |-> [s \in RateLimitedServices |-> 0],
     accepted |-> [s \in RateLimitedServices |-> None],
     ret |-> RlCall("none", FALSE, 0)]

NoServiceCalls == NoServiceCallsAt(StartEpoch)

\* _check_rate_limit with the timestamp written on every call
check_rate_limit_always_stamping(r, service_name) ==
    LET last_call == r.last_service_call[service_name]
    IN  [allowed |-> ~(r.now - last_call < SERVICE_COOLDOWN_SECONDS),
         last_service_call |->
             [r.last_service_call EXCEPT ![service_name] = r.now]]

\* _check_rate_limit: the answer and the dictionary after the call
check_rate_limit(r, service_name) ==
    LET last_call == r.last_service_call[service_name]
    IN  IF r.now - last_call < SERVICE_COOLDOWN_SECONDS
        THEN [allowed |-> FALSE, last_service_call |-> r.last_service_call]
        ELSE [allowed |-> TRUE,
              last_service_call |->
                  [r.last_service_call EXCEPT ![service_name] = r.now]]

\* the limiter after a call of the service
service_called(r, service_name) ==
    LET c == check_rate_limit(r, service_name)
    IN  [r EXCEPT !.last_service_call = c.last_service_call,
                  !.calls[service_name] = @ + 1,
                  !.accepted[service_name] =
                      IF c.allowed THEN r.now ELSE @,
                  !.ret = RlCall(service_name, c.allowed, r.now)]

\* what an accepted call goes on to do
rate_limited_service(w, service_name, env) ==
    CASE service_name = "recalculate" -> recalculate_plan(w, TRUE, env)
      [] service_name = "force_charge" -> set_force_charge(w, TRUE, env)
      [] service_name = "disable_charge" -> set_disable_charge(w, TRUE, env)

\* the seconds that pass between two calls: a moment, or one short of the
\* cooldown
RlSteps == {1, SERVICE_COOLDOWN_SECONDS - 1}

ServiceCallsMade(r) ==
    r.calls["recalculate"] + r.calls["force_charge"] + r.calls["disable_charge"]

(***************************************************************************)
(* The running system                                                      *)
(***************************************************************************)
StartHour == 23

MaxTime == Hours(MaxHour)

\* the callbacks that call _stop_charging, none of them suspended
NoTasks == [task \in {"window_end", "monitor"} |-> "idle"]

\* async_track_time_change: the callbacks registered for the time t
Scheduled(t) ==
    {"monitor"}
        \cup (IF TimeOfDay(t) = window_start_time THEN {"window_start"} ELSE {})
        \cup (IF TimeOfDay(t) = window_end_time THEN {"window_end"} ELSE {})

CoordInit ==
    /\ clock = Hours(StartHour)
    /\ due = {}
    /\ state = NidiaState
    /\ hardware = HardwareController
    /\ switch_bypass = FALSE
    /\ decision = DecisionSummary(NoDecision)
    /\ task_pc = NoTasks
    /\ sessions_started = 0
    /\ session_records = 0
    /\ bp = NoBypassRequests
    /\ rl = NoServiceCalls

\* time passes, once the callbacks of the current instant have run
Tick ==
    /\ due = {}
    /\ clock < MaxTime
    /\ clock' = clock + 1
    /\ due' = Scheduled(clock + 1)
    /\ UNCHANGED <<state, hardware, switch_bypass, decision, evalVars, planVars, balVars, fcVars, svVars,
                   taskVars, auxVars>>

\* EVEnergyNumber.async_set_native_value
SetEvEnergy ==
    \E value \in CoordValues, env \in Envs :
        /\ SetWorld(handle_ev_energy_change(World, value, clock, env))
        /\ UNCHANGED <<clock, due, evalVars, planVars, balVars, fcVars, svVars,
                   taskVars, auxVars>>

WindowStart ==
    /\ "window_start" \in due
    /\ \E env \in Envs : SetWorld(handle_window_start(World, clock, env))
    /\ due' = due \ {"window_start"}
    /\ UNCHANGED <<clock, evalVars, planVars, balVars, fcVars, svVars,
                   taskVars, auxVars>>

WindowEnd ==
    /\ "window_end" \in due
    /\ \E env \in Envs : SetWorld(handle_window_end(World, clock, env))
    /\ due' = due \ {"window_end"}
    /\ UNCHANGED <<clock, evalVars, planVars, balVars, fcVars, svVars,
                   taskVars, auxVars>>

MonitorCharging ==
    /\ "monitor" \in due
    /\ \E env \in Envs : SetWorld(monitor_charging(World, clock, env))
    /\ due' = due \ {"monitor"}
    /\ UNCHANGED <<clock, evalVars, planVars, balVars, fcVars, svVars,
                   taskVars, auxVars>>

\* Home Assistant restarts (or the entry is reloaded): the coordinator is
\* built anew, the callbacks are registered anew and the number entity
\* restores its last state: none, the value the entity last wrote, or a
\* stored state outside the range of the entity
Restart ==
    /\ \E synced \in BOOLEAN,
          restored \in {None, state.ev.energy_kwh, EV_MAX_VALUE + 50} :
         SetWorld(async_added_to_hass(coordinator_init(World, synced),
                                      restored, clock))
    /\ due' = {}
    /\ UNCHANGED <<clock, evalVars, planVars, balVars, fcVars, svVars,
                   taskVars, auxVars>>

(***************************************************************************)
(* The callbacks that stop a charge session, interleaved at their awaits.  *)
(* _stop_charging tests is_charging_active, awaits set_inverter(False)     *)
(* (hardware.py: the service call, and asyncio.sleep before a retry) and   *)
(* clears the flag only afterwards; the event loop may run the other       *)
(* callback while one of them waits there.                                *)
(***************************************************************************)
MaxNights == 2

\* the "Record savings" part of _stop_charging, for the session it closed
RecordSavings(session) ==
    IF session.charged_e4 > 0
    THEN /\ \E ties \in SvTies :
              LET charged_kwh == session_charged_kwh(session)
              IN  /\ sv' = record_charge_session(sv, charged_kwh, sv_today,
                                                 sv_today, ties)
                  /\ sv_ret' = SvCall("record_charge_session", charged_kwh,
                                      sv_today,
                                      session_record(sv, charged_kwh, sv_today,
                                                     ties))
         /\ sv_count' = sv_count + 1
         /\ session_records' = session_records + 1
    ELSE UNCHANGED <<sv, sv_ret, sv_count, session_records>>

\* _handle_window_start; _start_charging begins a session when the plan
\* schedules a charge
SessionWindowStart ==
    /\ ~state.is_in_charging_window
    /\ task_pc = NoTasks
    /\ sessions_started < MaxNights
    /\ \E env \in Envs :
         LET w == handle_window_start(World, clock, env)
             started == w.state.current_plan.is_charging_scheduled
         IN  /\ SetWorld(w)
             /\ sessions_started' = sessions_started + (IF started THEN 1 ELSE 0)
             /\ session_records' = IF started THEN 0 ELSE session_records
    /\ UNCHANGED <<auxVars, clock, due, task_pc, sv, sv_ret, sv_today, sv_count, evalVars,
                   planVars, balVars, fcVars>>

\* _monitor_charging up to the first await that suspends it, or to its end
\* when set_inverter completes without giving up the event loop
MonitorBegin ==
    /\ task_pc["monitor"] = "idle"
    /\ state.is_charging_active
    /\ \E env \in Envs, suspends \in BOOLEAN :
         /\ target_reached(World, env)
         /\ IF suspends
            THEN /\ task_pc' = [task_pc EXCEPT !["monitor"] = "stopping"]
                 /\ UNCHANGED <<state, hardware, switch_bypass, decision, sv,
                                sv_ret, sv_count, session_records>>
            ELSE LET w == finish_stop_charging(World, clock, env)
                 IN  /\ SetWorld(w)
                     /\ RecordSavings(w.state.current_session)
                     /\ UNCHANGED task_pc
    /\ UNCHANGED <<auxVars, clock, due, sessions_started, sv_today, evalVars, planVars,
                   balVars, fcVars>>

\* _handle_window_end up to the first await that suspends it, or to its end
WindowEndBegin ==
    /\ task_pc["window_end"] = "idle"
    /\ state.is_in_charging_window
    /\ \E env \in Envs, suspends \in BOOLEAN :
         LET w1 == [World EXCEPT !.state.is_in_charging_window = FALSE]
         IN  IF ~state.is_charging_active
             THEN /\ SetWorld(finish_window_end(w1, clock, env))
                  /\ UNCHANGED <<task_pc, sv, sv_ret, sv_count, session_records>>
             ELSE IF suspends
             THEN /\ SetWorld(w1)
                  /\ task_pc' = [task_pc EXCEPT !["window_end"] = "stopping"]
                  /\ UNCHANGED <<sv, sv_ret, sv_count, session_records>>
             ELSE LET w2 == finish_stop_charging(w1, clock, env)
                  IN  /\ SetWorld(finish_window_end(w2, clock, env))
                      /\ RecordSavings(w2.state.current_session)
                      /\ UNCHANGED task_pc
    /\ UNCHANGED <<auxVars, clock, due, sessions_started, sv_today, evalVars, planVars,
                   balVars, fcVars>>

\* the callback resumes after "await self.hardware.set_inverter(False)" and
\* runs to its end
StopResume ==
    \E task \in DOMAIN task_pc :
        /\ task_pc[task] = "stopping"
        /\ \E env \in Envs :
             LET w2 == finish_stop_charging(World, clock, env)
             IN  /\ SetWorld(IF task = "window_end"
                              THEN finish_window_end(w2, clock, env)
                              ELSE w2)
                 /\ RecordSavings(w2.state.current_session)
        /\ task_pc' = [task_pc EXCEPT ![task] = "idle"]
        /\ UNCHANGED <<auxVars, clock, due, sessions_started, sv_today, evalVars, planVars,
                       balVars, fcVars>>

\* the force-charge button or service (True), or a caller passing False
SetForceCharge ==
    /\ \E enabled \in BOOLEAN, env \in Envs :
         SetWorld(set_force_charge(World, enabled, env))
    /\ UNCHANGED <<clock, due, evalVars, planVars, balVars, fcVars, svVars,
                   taskVars, auxVars>>

SetDisableCharge ==
    /\ \E enabled \in BOOLEAN, env \in Envs :
         SetWorld(set_disable_charge(World, enabled, env))
    /\ UNCHANGED <<clock, due, evalVars, planVars, balVars, fcVars, svVars,
                   taskVars, auxVars>>

\* _rate_limited_recalculate, _rate_limited_force_charge and
\* _rate_limited_disable_charge
ServiceCall ==
    /\ ServiceCallsMade(rl) < MaxServiceCalls
    /\ \E service_name \in RateLimitedServices, env \in Envs :
         /\ rl' = service_called(rl, service_name)
         /\ IF check_rate_limit(rl, service_name).allowed
            THEN SetWorld(rate_limited_service(World, service_name, env))
            ELSE UNCHANGED <<state, hardware, switch_bypass, decision>>
    /\ UNCHANGED <<clock, due, evalVars, planVars, balVars, fcVars, svVars,
                   taskVars, bp>>

\* time.time() moves on
RlTick ==
    /\ rl.ticks < MaxRateTicks
    /\ \E seconds \in RlSteps :
         rl' = [rl EXCEPT !.now = @ + seconds, !.ticks = @ + 1]
    /\ UNCHANGED <<clock, due, state, hardware, switch_bypass, decision,
                   evalVars, planVars, balVars, fcVars, svVars, taskVars, bp>>

\* the integration is reloaded: a new coordinator, _last_service_call empty
RlRestart ==
    /\ ServiceCallsMade(rl) > 0
    /\ \E synced \in BOOLEAN :
         SetWorld(async_added_to_hass(coordinator_init(World, synced),
                                      None, clock))
    /\ due' = {}
    /\ rl' = [NoServiceCallsAt(rl.now) EXCEPT !.ticks = rl.ticks]
    /\ UNCHANGED <<clock, evalVars, planVars, balVars, fcVars, svVars,
                   taskVars, bp>>

Init == CoordInit /\ EvalIdle /\ PlanIdle /\ BalIdle /\ FcIdle /\ SvIdle

Next == Tick \/ SetEvEnergy \/ WindowStart \/ WindowEnd \/ MonitorCharging \/ Restart

Spec == Init /\ [][Next]_vars

InitEval ==
    /\ ev_in \in EvalInputs /\ ev_out = NoDecision
    /\ PlanIdle /\ BalIdle /\ FcIdle /\ SvIdle /\ CoordInit

SpecEval == InitEval /\ [][EvaluateCall]_vars

InitPlan ==
    /\ pl_in \in PlanInputs /\ pl_out = NoPlan
    /\ EvalIdle /\ BalIdle /\ FcIdle /\ SvIdle /\ CoordInit

SpecPlan == InitPlan /\ [][CalculateCall]_vars

InitBalance ==
    /\ bal_in \in BalInputs /\ bal_out = NoBalance
    /\ EvalIdle /\ PlanIdle /\ FcIdle /\ SvIdle /\ CoordInit

SpecBalance == InitBalance /\ [][BalanceCall]_vars

\* a forecaster that starts without history, on the eve of the last day close
InitReadings ==
    /\ fc = ConsumptionForecaster(<<>>)
    /\ fc_ret = NoFcCall
    /\ fc_day = LastCloseDay - 1
    /\ EvalIdle /\ PlanIdle /\ BalIdle /\ SvIdle /\ CoordInit

SpecReadings == InitReadings /\ [][AddPowerReading \/ CloseDay]_vars

\* a forecaster that starts without history or with a stored one of 20 days,
\* with or without energy already integrated today
InitHistory ==
    /\ \E history \in {<<>>, LoadedHistory(HISTORY_DAYS - 1)},
          current_day_kwh \in {0, 3000} :
         fc = [ConsumptionForecaster(history) EXCEPT !.current_day_kwh = current_day_kwh]
    /\ fc_ret = NoFcCall
    /\ fc_day = HISTORY_DAYS - 1
    /\ EvalIdle /\ PlanIdle /\ BalIdle /\ SvIdle /\ CoordInit

SpecHistory ==
    InitHistory /\ [][CloseDay \/ GetWeekdayAverage \/ GetConsumptionForecast \/ DeleteRecord
                        \/ ForecasterReload]_vars

\* a calculator that starts without sessions, or was loaded with the sessions
\* of the last 30 days
InitSavings ==
    /\ \/ sv \in SvCalculators
       \/ sv = StoredSessions(SavingsCalculator(250, 120, 250, 200, 120, "two_tier"),
                              SAVINGS_HISTORY_DAYS)
    /\ sv_ret = NoSvCall
    /\ sv_today = SvFirstDay
    /\ sv_count = 0
    /\ EvalIdle /\ PlanIdle /\ BalIdle /\ FcIdle /\ CoordInit

SpecSavings ==
    InitSavings /\ [][RecordChargeSession \/ SavingsNextDay \/ SavingsReload]_vars

\* the coordinator with its savings calculator, from its construction on
InitSession ==
    /\ CoordInit
    /\ sv = SavingsCalculator(250, 120, 250, 200, 120, "two_tier")
    /\ sv_ret = NoSvCall
    /\ sv_today = SvFirstDay
    /\ sv_count = 0
    /\ EvalIdle /\ PlanIdle /\ BalIdle /\ FcIdle

SpecSession ==
    InitSession
    /\ [][SessionWindowStart \/ MonitorBegin \/ WindowEndBegin \/ StopResume]_vars

\* the bypass of a coordinator and of an ExecutionService after their
\* construction, with the bypass switch entity configured or not
InitBypass ==
    /\ clock = Hours(StartHour)
    /\ due = {}
    /\ state = NidiaState
    /\ hardware = HardwareController
    /\ switch_bypass = FALSE
    /\ decision = DecisionSummary(NoDecision)
    /\ task_pc = NoTasks
    /\ sessions_started = 0
    /\ session_records = 0
    /\ bp \in {BypassRequests(configured) : configured \in BOOLEAN}
    /\ rl = NoServiceCalls
    /\ EvalIdle /\ PlanIdle /\ BalIdle /\ FcIdle /\ SvIdle

\* the running system with the override buttons, the EV left alone
SpecOverrides ==
    Init /\ [][Tick \/ WindowStart \/ WindowEnd \/ MonitorCharging
                  \/ SetForceCharge \/ SetDisableCharge]_vars

\* the states the coordinator can be in when the window ends: the EV idle,
\* charging or over its timeout, the bypass on or off (the flag and the
\* switch agreeing or not, after a failed switch call), an override set or
\* none, a charge session active or not, the in-window flag lost by a
\* restart inside the window or not
WindowEndEvStates ==
    {EVState(0, None, FALSE)}
        \cup {EVState(energy_kwh, DayTicks + window_start_time, bypass_active) :
                 energy_kwh \in {5, EV_MAX_VALUE}, bypass_active \in BOOLEAN}

WindowEndStates ==
    {[NidiaState EXCEPT !.is_in_charging_window = in_window,
                        !.is_charging_active = active,
                        !.current_session =
                            IF active THEN ChargeSession(TRUE, 20, FALSE, None, 0)
                            ELSE NewChargeSession,
                        !.force_charge_enabled = (button = "force"),
                        !.disable_charge_enabled = (button = "disable"),
                        !.ev = ev] :
        in_window \in BOOLEAN, active \in BOOLEAN,
        button \in {"none", "force", "disable"}, ev \in WindowEndEvStates}

InitWindowEnd ==
    /\ clock = DayTicks + window_end_time
    /\ due = Scheduled(clock)
    /\ state \in WindowEndStates
    /\ \E bypass_state \in BOOLEAN :
         /\ hardware = [bypass_state |-> bypass_state,
                        inverter_state |-> state.is_charging_active]
         /\ switch_bypass = bypass_state
    /\ decision = DecisionSummary(NoDecision)
    /\ task_pc = NoTasks
    /\ sessions_started = 0
    /\ session_records = 0
    /\ bp = NoBypassRequests
    /\ rl = NoServiceCalls
    /\ EvalIdle /\ PlanIdle /\ BalIdle /\ FcIdle /\ SvIdle

\* the callbacks of the instant the window ends, in either order
SpecWindowEnd == InitWindowEnd /\ [][WindowEnd \/ MonitorCharging]_vars

\* the services called at any moment, the rest of the coordinator at rest
SpecRateLimit == Init /\ [][ServiceCall \/ RlTick \/ RlRestart]_vars

SpecBypass == InitBypass /\ [][SetBypass \/ EnableBypass \/ DisableBypass]_vars

(***************************************************************************)
(* Properties of EVManager.evaluate (checked under SpecEval)               *)
(***************************************************************************)
Evaluated == ev_out.result # "none"

InsideFixedWindow == Hours(0) <= ev_in.current_time /\ ev_in.current_time < Hours(7)

ClampedIn == IF ev_in.new_value < 0 THEN 0
             ELSE IF ev_in.new_value > 200 THEN 200 ELSE ev_in.new_value

ElapsedIn == ev_in.now - ev_in.timer_start

\* C1: an evaluation made inside the charging window with a clamped value
\* > 0 (and an energy balance at hand) is PROCESSED, and its
\* bypass_should_activate is false when is_timeout is true, false when the
\* balance is sufficient, and true exactly when there is neither a timeout
\* nor sufficient energy.
C1_BypassOnlyWithoutTimeoutAndInsufficient ==
    (Evaluated /\ InsideFixedWindow /\ ClampedIn > 0 /\ ~IsNoBalance(ev_in.energy_balance))
        => /\ ev_out.result = "PROCESSED"
           /\ ev_out.bypass_should_activate
                <=> (~ev_out.is_timeout /\ ~ev_in.energy_balance.sufficient)

C1_Witness ==
    /\ ev_out.result = "PROCESSED"
    /\ ev_out.is_timeout
    /\ ~IsNoBalance(ev_in.energy_balance)
    /\ ~ev_in.energy_balance.sufficient
    /\ ~ev_out.bypass_should_activate

\* C3: whenever current_time is outside the evaluator's window
\* [00:00, 07:00), evaluate returns SAVED with bypass_should_activate false,
\* whatever the new value, the old value, timer_start and energy_balance are
\* (energy_balance absent or insufficient included).
C3_OutsideWindowIsSaved ==
    (Evaluated /\ ~InsideFixedWindow)
        => (ev_out.result = "SAVED" /\ ~ev_out.bypass_should_activate)

C3_Witness ==
    /\ ev_out.result = "SAVED"
    /\ ev_in.current_time = Hours(7)
    /\ ev_in.new_value = 0
    /\ IsNoBalance(ev_in.energy_balance)
    /\ ev_in.timer_start # None

\* C4: whenever current_time is inside the window and the clamped value is
\* 0 (any negative input included), evaluate returns RESET with
\* bypass_should_activate false, whatever timer_start and energy_balance are.
C4_ZeroInsideWindowIsReset ==
    (Evaluated /\ InsideFixedWindow /\ ClampedIn = 0)
        => (ev_out.result = "RESET" /\ ev_out.value = 0 /\ ~ev_out.bypass_should_activate)

C4_Witness ==
    /\ ev_out.result = "RESET"
    /\ ev_in.new_value < 0
    /\ ev_in.timer_start # None
    /\ ~IsNoBalance(ev_in.energy_balance)
    /\ ~ev_in.energy_balance.sufficient

\* C5: is_timeout of a PROCESSED decision is true exactly when timer_start is
\* set and now - timer_start >= timeout_hours, timeout_hours being the value
\* the caller supplies to evaluate (the configured EV timeout).
C5_TimeoutUsesSuppliedHours ==
    (ev_out.result = "PROCESSED")
        => (ev_out.is_timeout
              <=> (ev_in.timer_start # None /\ ElapsedIn >= Hours(ev_in.timeout_hours)))

\* C6: a time t is inside the window used by the evaluator exactly when
\* window_start <= t < window_end, for the window_start and window_end the
\* caller supplies.
C6_WindowIsSuppliedHalfOpenInterval ==
    Evaluated
        => ((ev_out.result # "SAVED")
              <=> (ev_in.window_start <= ev_in.current_time
                     /\ ev_in.current_time < ev_in.window_end))

(***************************************************************************)
(* Properties of ChargePlanner.calculate (checked under SpecPlan)          *)
(***************************************************************************)
ValidPlanningInput ==
    /\ pl_in.battery_capacity_kwh > 0
    /\ 0 <= pl_in.min_soc_reserve_percent
    /\ pl_in.min_soc_reserve_percent <= 100

\* C10: for every valid PlanningInput (capacity > 0, 0 <= reserve <= 100)
\* and every combination of the override flags,
\* min_soc_reserve_percent <= target_soc_percent <= 100.
C10_TargetSocWithinReserveAnd100 ==
    (pl_out.computed /\ ValidPlanningInput)
        => /\ pl_in.min_soc_reserve_percent * pl_out.soc_den <= pl_out.target_soc_num
           /\ pl_out.target_soc_num <= 100 * pl_out.soc_den

C10_Witness ==
    /\ pl_out.computed /\ ValidPlanningInput
    /\ pl_in.disable_charge /\ pl_in.force_charge
    /\ pl_in.consumption_forecast_kwh = 50
    /\ pl_in.min_soc_reserve_percent = 15
    /\ pl_out.target_soc_num = 100 * pl_out.soc_den

NoOverride == ~pl_in.force_charge /\ ~pl_in.disable_charge

CurrentEnergyOf(input_data) ==
    input_data.current_soc_percent * input_data.battery_capacity_kwh * 100

\* C11: with no override set, planned_charge_kwh equals
\* max(0, target_energy - current_energy), with target_energy the clamped
\* target SOC times the capacity and current_energy the current SOC times the
\* capacity; it is never negative and is_charging_scheduled is true exactly
\* when planned_charge_kwh > 0.
C11_PlannedChargeIsMissingEnergy ==
    (pl_out.computed /\ NoOverride)
        => /\ pl_out.planned_charge_e4
                 = (IF pl_out.target_soc_num > CurrentEnergyOf(pl_in)
                    THEN pl_out.target_soc_num - CurrentEnergyOf(pl_in) ELSE 0)
           /\ pl_out.planned_charge_e4 >= 0
           /\ pl_out.is_charging_scheduled <=> (pl_out.planned_charge_e4 > 0)

\* a battery above its target: the difference is negative and nothing is planned
C11_Witness ==
    /\ pl_out.computed /\ NoOverride
    /\ pl_out.target_soc_num < CurrentEnergyOf(pl_in)
    /\ pl_out.planned_charge_e4 = 0
    /\ ~pl_out.is_charging_scheduled

\* C12: whenever disable_charge is true the plan has planned_charge_kwh = 0
\* and is_charging_scheduled = false, whatever the forecasts, the SOC and the
\* EV energy are, and also when force_charge is set at the same time.
C12_DisableChargePlansNothing ==
    (pl_out.computed /\ pl_in.disable_charge)
        => /\ pl_out.planned_charge_e4 = 0
           /\ ~pl_out.is_charging_scheduled

\* both overrides set, on an empty battery with load ahead
C12_Witness ==
    /\ pl_out.computed
    /\ pl_in.disable_charge /\ pl_in.force_charge
    /\ pl_in.current_soc_percent = 0
    /\ pl_in.consumption_forecast_kwh = 50
    /\ pl_out.planned_charge_e4 = 0
    /\ ~pl_out.is_charging_scheduled

IsForcedPlan ==
    /\ pl_out.target_soc_num = 100 * pl_out.soc_den
    /\ pl_out.is_charging_scheduled

\* C13 as claimed: whenever force_charge is true the plan has
\* target_soc_percent = 100 and is_charging_scheduled = true, for every input.
C13_ForceChargeAlwaysPlansFull ==
    (pl_out.computed /\ pl_in.force_charge) => IsForcedPlan

\* C13 as amended: whenever force_charge is true and disable_charge is false
\* the plan has target_soc_percent = 100 and is_charging_scheduled = true
\* (including a battery already at 100 % SOC).
C13_ForceChargeWithoutDisablePlansFull ==
    (pl_out.computed /\ pl_in.force_charge /\ ~pl_in.disable_charge) => IsForcedPlan

\* forced on a battery already full: scheduled, with nothing to charge
C13_Witness ==
    /\ pl_out.computed
    /\ pl_in.force_charge /\ ~pl_in.disable_charge
    /\ pl_in.current_soc_percent = 100
    /\ IsForcedPlan
    /\ pl_out.planned_charge_e4 = 0

Called == pl_out # NoPlan

\* C14 as claimed: calculate returns a PlanningResult without raising for
\* every numeric PlanningInput.
C14_CalculateNeverRaises == Called => (pl_out.computed /\ ~pl_out.raised)

\* C14 as amended: calculate returns a PlanningResult without raising for
\* every numeric PlanningInput whose battery capacity is not zero.
C14_CalculateReturnsForNonZeroCapacity ==
    (Called /\ pl_in.battery_capacity_kwh # 0)
        => (pl_out.computed /\ ~pl_out.raised)

\* a result for an input outside every sane range but with a capacity
C14_Witness ==
    /\ Called /\ pl_out.computed
    /\ pl_in.battery_capacity_kwh # 0
    /\ pl_in.min_soc_reserve_percent > 100
    /\ pl_in.current_soc_percent = 0

\* the plan for pl_in with another EV energy
PlanWithEv(ev) == calculate([pl_in EXCEPT !.ev_energy_kwh = ev])

\* a / b < c / d for positive b and d
TargetBelow(p, q) == p.target_soc_num * q.soc_den < q.target_soc_num * p.soc_den

MonotoneInEv ==
    \A ev \in PlanEvs :
        ev >= pl_in.ev_energy_kwh
            => /\ ~TargetBelow(PlanWithEv(ev), pl_out)
               /\ PlanWithEv(ev).planned_charge_e4 >= pl_out.planned_charge_e4

TargetStrictlyInside(p) ==
    /\ p.target_soc_num > pl_in.min_soc_reserve_percent * p.soc_den
    /\ p.target_soc_num < 100 * p.soc_den

LoadExceedsSolar ==
    pl_in.consumption_forecast_kwh + pl_in.ev_energy_kwh > pl_in.solar_forecast_kwh

BalanceReturned == ~IsNoBalance(bal_out)

\* C16: available = battery + solar, needed = consumption + ev,
\* needed_with_margin = needed x 1.15, sufficient holds exactly when
\* available >= needed_with_margin, deficit = max(0, needed_with_margin -
\* available), surplus = max(0, available - needed_with_margin); deficit and
\* surplus are never both positive and sufficient holds exactly when
\* deficit = 0.
C16_EnergyBalanceArithmetic ==
    BalanceReturned
        => LET battery == bal_in.battery_e4
               solar == 10000 * bal_in.solar_forecast_kwh
               load == 10000 * (bal_in.consumption_forecast_kwh + bal_in.ev_energy_kwh)
           IN  /\ bal_out.available = battery + solar
               /\ bal_out.needed = load
               /\ 100 * bal_out.needed_with_margin = 115 * load
               /\ bal_out.sufficient
                     <=> (100 * (battery + solar) >= 115 * load)
               /\ bal_out.deficit
                     = (IF bal_out.needed_with_margin > bal_out.available
                        THEN bal_out.needed_with_margin - bal_out.available ELSE 0)
               /\ bal_out.surplus
                     = (IF bal_out.available > bal_out.needed_with_margin
                        THEN bal_out.available - bal_out.needed_with_margin ELSE 0)
               /\ ~(bal_out.deficit > 0 /\ bal_out.surplus > 0)
               /\ bal_out.sufficient <=> (bal_out.deficit = 0)

\* available equal to the need with its margin: sufficient, nothing to spare
C16_Witness ==
    /\ BalanceReturned
    /\ bal_out.needed > 0
    /\ bal_out.available = bal_out.needed_with_margin
    /\ bal_out.sufficient
    /\ bal_out.deficit = 0 /\ bal_out.surplus = 0

(***************************************************************************)
(* Properties of the consumption history (checked under SpecHistory)       *)
(***************************************************************************)
Copies(history, r) == Cardinality({i \in DOMAIN history : history[i] = r})

Records(history) == {history[i] : i \in DOMAIN history}

DateAscending(history) ==
    \A i, j \in DOMAIN history : i < j => history[i].date <= history[j].date

\* kept holds records of before only, and every record of before that it
\* lacks is dated no later than any record it holds
MostRecentOf(kept, before) ==
    /\ \A r \in Records(kept) : Copies(kept, r) <= Copies(before, r)
    /\ \A r \in Records(before) :
         Copies(kept, r) < Copies(before, r)
            => \A k \in Records(kept) : r.date <= k.date

CloseDayStep == fc_ret'.op = "close_day" /\ fc_day' = fc_day + 1

\* C17: a close_day call leaves at most 21 records; when it pruned (the
\* history with the new record was longer than 21), the records left are in
\* ascending date order and are the 21 most recent of the records stored
\* before pruning.
C17_CloseDayKeepsTheMostRecentDays ==
    [][CloseDayStep =>
        LET stored == Append(fc.history, fc_ret'.record) IN
        /\ Len(fc'.history) <= HISTORY_DAYS
        /\ Len(stored) > HISTORY_DAYS =>
              /\ Len(fc'.history) = HISTORY_DAYS
              /\ DateAscending(fc'.history)
              /\ MostRecentOf(fc'.history, stored)]_vars

\* the second close after a stored history of 20 days pruned, and the record
\* it added was sorted into the history, not left at its end
C17_Witness ==
    /\ fc_ret.op = "close_day"
    /\ fc_day >= HISTORY_DAYS + 1
    /\ Len(fc.history) = HISTORY_DAYS
    /\ fc_ret.record \in Records(fc.history)
    /\ fc.history[Len(fc.history)].date > fc_ret.record.date
    /\ fc.history[1].date > 1

RECURSIVE TotalConsumption(_, _)
\* the consumption of the records at the indexes idx, added up
TotalConsumption(history, idx) ==
    IF idx = {} THEN 0
    ELSE LET i == CHOOSE i \in idx : TRUE
         IN  history[i].consumption_kwh + TotalConsumption(history, idx \ {i})

\* average is 0 when the history has no record of the weekday, and the mean
\* of the consumption of its records of the weekday otherwise
IsMeanOf(average, history, weekday) ==
    LET idx == {i \in DOMAIN history : history[i].weekday = weekday}
    IN  IF idx = {}
        THEN average.num = 0
        ELSE average.num * Cardinality(idx) = TotalConsumption(history, idx) * average.den

IsMaxOf(a, b, c) ==
    /\ a.num * b.den >= b.num * a.den
    /\ a.num * c.den >= c.num * a.den
    /\ \/ a.num * b.den = b.num * a.den
       \/ a.num * c.den = c.num * a.den

\* C22: get_consumption_forecast returns the larger of minimum_fallback and
\* the average of the target weekday: the weekday of now, or the next weekday
\* modulo 7 when forecasting for tomorrow; so it never returns less than
\* minimum_fallback.
C22_ForecastIsAverageOrFallback ==
    fc_ret.op = "get_consumption_forecast" =>
        LET today == (fc_ret.arg \div DayTicks) % 7
            weekday == IF fc_ret.for_tomorrow THEN (today + 1) % 7 ELSE today
        IN  /\ \E average \in {fc.weekday_cache[weekday]} :
                  /\ IsMeanOf(average, fc.history, weekday)
                  /\ IsMaxOf(fc_ret.value, average, Rational(fc_ret.minimum_fallback, 1))
            /\ fc_ret.value.num >= fc_ret.minimum_fallback * fc_ret.value.den

\* a forecast for tomorrow returned an average above the fallback
C22_Witness ==
    /\ fc_ret.op = "get_consumption_forecast"
    /\ fc_ret.for_tomorrow
    /\ fc_ret.minimum_fallback > 0
    /\ fc_ret.value.num > fc_ret.minimum_fallback * fc_ret.value.den
    /\ fc_day > HISTORY_DAYS - 1

DeleteRecordStep == fc_ret'.op = "delete_record" /\ fc_day' = fc_day

\* the sequence without its i-th element
WithoutIndex(history, i) ==
    SubSeq(history, 1, i - 1) \o SubSeq(history, i + 1, Len(history))

\* C23: delete_record(date) removes one record of that date when there is
\* one, invalidates the cache and returns true; when there is none it returns
\* false and leaves the history as it was.
C23_DeleteRecordRemovesOneEntry ==
    [][DeleteRecordStep =>
        LET dated == {i \in DOMAIN fc.history : fc.history[i].date = fc_ret'.arg} IN
        IF dated # {}
        THEN /\ fc_ret'.ok
             /\ \E i \in dated : fc'.history = WithoutIndex(fc.history, i)
             /\ ~fc'.cache_valid
             /\ fc'.current_day_kwh = fc.current_day_kwh
        ELSE /\ ~fc_ret'.ok
             /\ fc'.history = fc.history]_vars

\* one of two records of the same date was deleted, the other is still stored
C23_Witness ==
    /\ fc_ret.op = "delete_record"
    /\ fc_ret.ok
    /\ \E r \in Records(fc.history) : r.date = fc_ret.arg
    /\ ~fc.cache_valid

ForecasterReloadStep == fc_ret'.op = "from_dict" /\ fc_day' = fc_day

\* C30: from_dict(to_dict(f)) is equivalent to f: it has the history of f in
\* the same order, gives the same weekday averages and forecasts, and the
\* same consumption of the current day, now and after any later reading.
C30_ForecasterRoundTrip ==
    [][ForecasterReloadStep =>
        /\ fc'.history = fc.history
        /\ \A w \in WEEKDAYS : get_weekday_average(fc', w) = get_weekday_average(fc, w)
        /\ \A for_tomorrow \in BOOLEAN, minimum_fallback \in FcFallbacks :
              get_consumption_forecast(fc', for_tomorrow, Midnight(fc_day + 1), minimum_fallback)
                = get_consumption_forecast(fc, for_tomorrow, Midnight(fc_day + 1), minimum_fallback)
        /\ fc'.current_day_kwh = fc.current_day_kwh
        /\ fc'.last_reading_time = fc.last_reading_time
        /\ fc'.last_reading_value = fc.last_reading_value]_vars

(***************************************************************************)
(* Properties of the power readings (checked under SpecReadings)           *)
(***************************************************************************)
AddReadingStep == fc_ret'.op = "add_power_reading" /\ fc_day' = fc_day

\* the watts of a reading brought into 0 .. 100000
Clamped(watts) ==
    IF watts < 0 THEN 0 ELSE IF watts > 100000 THEN 100000 ELSE watts

\* C19: a finite reading is integrated only when there is a previous reading
\* and the time since it is more than zero and at most one hour (exactly one
\* hour integrates); it then adds average(last, new) x elapsed hours / 1000
\* kWh to the accumulator, that is (last + new) x elapsed ticks in the unit
\* of the accumulator. Otherwise the accumulator is unchanged. In both cases
\* the last reading is replaced by the new one.
C19_ReadingIntegratedWithinOneHour ==
    [][AddReadingStep /\ isfinite(fc_ret'.power) =>
        LET new == Clamped(fc_ret'.power.watts)
            elapsed == fc_ret'.arg - fc.last_reading_time
            integrates == /\ fc.last_reading_time # None
                          /\ elapsed > 0
                          /\ elapsed <= Hours(1)
        IN  /\ fc'.last_reading_time = fc_ret'.arg
            /\ fc'.last_reading_value = new
            /\ fc'.current_day_kwh =
                    IF integrates
                    THEN fc.current_day_kwh + (fc.last_reading_value + new) * elapsed
                    ELSE fc.current_day_kwh
            /\ fc_ret'.value = Rational(fc'.current_day_kwh, 1)]_vars

\* a reading above the clamp, exactly one hour after a reading of 1000 W, was
\* integrated
C19_Witness ==
    /\ fc_ret.op = "add_power_reading"
    /\ fc_ret.arg = Hours(1)
    /\ fc_ret.power.watts > MAX_POWER_WATTS
    /\ fc.last_reading_time = Hours(1)
    /\ fc.last_reading_value = MAX_POWER_WATTS
    /\ fc.current_day_kwh = (1000 + MAX_POWER_WATTS) * Hours(1)

\* C20: a reading that is not finite changes nothing in the forecaster
\* (accumulator, last power, last time); a finite reading is stored as a
\* value in 0 .. 100000 W; and no call other than close_day lowers the
\* accumulator.
C20_NonFiniteIgnoredAndAccumulatorMonotone ==
    [][/\ AddReadingStep /\ ~isfinite(fc_ret'.power) => fc' = fc
       /\ AddReadingStep /\ isfinite(fc_ret'.power) =>
             /\ fc'.last_reading_value >= 0
             /\ fc'.last_reading_value <= 100000
       /\ ~CloseDayStep => fc'.current_day_kwh >= fc.current_day_kwh]_vars

\* a reading that is not finite was ignored after energy was integrated up to
\* a negative reading, which is stored as 0 W
C20_Witness ==
    /\ fc_ret.op = "add_power_reading"
    /\ ~isfinite(fc_ret.power)
    /\ fc.current_day_kwh > 0
    /\ fc.last_reading_time # None
    /\ fc.last_reading_value = 0
    /\ fc_ret.value = Rational(fc.current_day_kwh, 1)

\* C21: close_day(now) returns one record dated the calendar day before now
\* whose consumption is the accumulator at the call (0 when nothing was
\* read) and appends it to the history (no pruning below 21 records);
\* afterwards the accumulator is 0 and no last reading is stored, so that the
\* first reading after it integrates nothing.
C21_CloseDayRecordsAndResetsTheDay ==
    [][/\ CloseDayStep =>
             LET day_before == (fc_ret'.arg \div DayTicks) - 1 IN
             /\ fc_ret'.record.date = day_before
             /\ fc_ret'.record.weekday = day_before % 7
             /\ fc_ret'.record.consumption_kwh = fc.current_day_kwh
             /\ Len(fc.history) < HISTORY_DAYS
                   => fc'.history = Append(fc.history, fc_ret'.record)
             /\ fc'.current_day_kwh = 0
             /\ fc'.last_reading_time = None
             /\ fc'.last_reading_value = None
       /\ AddReadingStep /\ fc.last_reading_time = None
             => fc'.current_day_kwh = fc.current_day_kwh]_vars

\* a day with integrated energy was closed, and the first reading of the next
\* day was stored without integrating
C21_Witness ==
    /\ fc_ret.op = "add_power_reading"
    /\ isfinite(fc_ret.power)
    /\ Len(fc.history) = 1
    /\ fc.history[1].consumption_kwh > 0
    /\ fc.current_day_kwh = 0
    /\ fc.last_reading_time = fc_ret.arg
    /\ fc.last_reading_time > 0

(***************************************************************************)
(* Properties of the savings calculator (checked under SpecSavings)        *)
(***************************************************************************)
RecordSessionStep == sv_count' = sv_count + 1

\* C24: record_charge_session sets the monthly accumulators back to zero
\* exactly when the month of the session date differs from current_month,
\* and then adds the session to them; it adds every session to the total and
\* lifetime accumulators and never sets those back.
C24_MonthlyResetOnMonthChangeOnly ==
    [][RecordSessionStep =>
        LET record == sv_ret'.record
            month == sv_ret'.charge_date \div DaysPerMonth
            changed == sv.state.current_month # month
            before == sv.state
            after == sv'.state
        IN  /\ after.current_month = month
            /\ after.monthly_charged_kwh =
                    (IF changed THEN 0 ELSE before.monthly_charged_kwh) + record.charged_kwh
            /\ after.monthly_savings_eur =
                    (IF changed THEN 0 ELSE before.monthly_savings_eur) + record.savings
            /\ after.total_charged_kwh = before.total_charged_kwh + record.charged_kwh
            /\ after.total_savings_eur = before.total_savings_eur + record.savings
            /\ after.total_cost_eur = before.total_cost_eur + record.offpeak_cost
            /\ after.theoretical_cost_eur = before.theoretical_cost_eur + record.peak_cost
            /\ after.lifetime_charged_kwh = before.lifetime_charged_kwh + record.charged_kwh
            /\ after.lifetime_savings_eur = before.lifetime_savings_eur + record.savings]_vars

\* the first session of a new month was recorded on top of earlier sessions
C24_Witness ==
    /\ sv_ret.op = "record_charge_session"
    /\ sv.state.current_month = 1
    /\ sv.state.monthly_charged_kwh = sv_ret.charged_kwh
    /\ sv.state.lifetime_charged_kwh > sv.state.monthly_charged_kwh
    /\ sv.state.total_charged_kwh = sv.state.lifetime_charged_kwh

\* charged_kwh x (day_rate - night_rate) of a recorded session, with the rates
\* of the pricing mode, in 1/16000 EUR
ProductOfRates(calc, charged_kwh) ==
    IF calc.pricing_mode = "three_tier"
    THEN charged_kwh * ((11 * calc.price_f1 + 5 * calc.price_f2) - 16 * calc.price_f3)
    ELSE charged_kwh * (16 * calc.price_peak - 16 * calc.price_offpeak)

\* C25 as stated: the savings of the record returned equal
\* round(charged_kwh x (day_rate - night_rate), 2), whichever way that
\* rounding goes.
C25_SavingsIsRoundedProduct ==
    [][RecordSessionStep =>
        \A tie \in {"down", "up"} :
            sv_ret'.record.savings =
                round_cents(ProductOfRates(sv, sv_ret'.charged_kwh), tie)]_vars

\* C25 amended: the savings of the record returned are
\* charged_kwh x (day_rate - night_rate) rounded to a cent next to it: they
\* differ from the product by at most half a cent.
C25_SavingsWithinHalfACentOfProduct ==
    [][RecordSessionStep =>
        LET product == ProductOfRates(sv, sv_ret'.charged_kwh)
            savings == sv_ret'.record.savings * CostUnitsPerCent
        IN  /\ 2 * (savings - product) <= CostUnitsPerCent
            /\ 2 * (product - savings) <= CostUnitsPerCent]_vars

\* a three_tier session was recorded: 3.5 kWh at (11 x 0.25 + 5 x 0.20) / 16
\* against 0.12 EUR per kWh saves 0.40 EUR
C25_Witness ==
    /\ sv_ret.op = "record_charge_session"
    /\ sv.pricing_mode = "three_tier"
    /\ sv_ret.charged_kwh = 35
    /\ sv_ret.record.savings = 40

\* C26: every record has savings = peak_cost - offpeak_cost on its stored
\* fields, and the accumulated savings are the accumulated peak cost minus
\* the accumulated off-peak cost.
C26_SavingsIsPeakMinusOffpeak ==
    /\ \A i \in DOMAIN sv.state.history :
          sv.state.history[i].savings
            = sv.state.history[i].peak_cost - sv.state.history[i].offpeak_cost
    /\ sv_ret.record.savings = sv_ret.record.peak_cost - sv_ret.record.offpeak_cost
    /\ sv.state.total_savings_eur
          = sv.state.theoretical_cost_eur - sv.state.total_cost_eur

\* C28: after record_charge_session the history is the earlier records that
\* are not older than 30 days, in their order, followed by the new record,
\* however many they are.
C28_HistoryPrunedByDateOnly ==
    [][RecordSessionStep =>
        LET Recent(r) == r.date >= sv_today - 30
        IN  sv'.state.history
              = Append(SelectSeq(sv.state.history, Recent), sv_ret'.record)]_vars

\* more than 30 records of the last 30 days are kept, after older ones were
\* dropped
C28_Witness ==
    /\ sv_ret.op = "record_charge_session"
    /\ Len(sv.state.history) > 30
    /\ sv.state.history[1].date > 1
    /\ sv.state.history[Len(sv.state.history)] = sv_ret.record

ReloadStep == sv_ret'.op = "from_dict" /\ sv_count' = sv_count /\ sv_today' = sv_today

\* C29: from_dict(to_dict(s)) has the accumulators, the month, the pricing
\* configuration and the history of s.
C29_SavingsRoundTrip ==
    [][ReloadStep => sv' = sv]_vars

(***************************************************************************)
(* Properties of the charge session (checked under SpecSession)            *)
(***************************************************************************)
\* C27: each started charge session leads to at most one
\* record_charge_session call, whichever way the window-end handler and the
\* every-minute monitor interleave when both stop it, and every such call
\* is made with a charged_kwh above zero
C27_OneRecordPerStartedSession ==
    /\ session_records <= 1
    /\ sv_ret.op = "record_charge_session" => sv_ret.charged_kwh > 0

(***************************************************************************)
(* Properties of the running system (checked under Spec)                   *)
(***************************************************************************)
TimerRunning == state.ev.timer_start # None

TimerStartedInWindow ==
    /\ TimerRunning
    /\ Hours(0) <= TimeOfDay(state.ev.timer_start)
    /\ TimeOfDay(state.ev.timer_start) < Hours(7)

BypassEngagedByDecision ==
    /\ switch_bypass /\ hardware.bypass_state
    /\ decision.result = "PROCESSED" /\ decision.bypass_should_activate

C7_TimerStartedOnlyByProcessedDecision ==
    [][(state'.ev.timer_start # state.ev.timer_start /\ state'.ev.timer_start # None)
          => /\ state.ev.timer_start = None
             /\ decision'.result = "PROCESSED"
             /\ decision'.value > 0]_vars

OverTimeout ==
    /\ decision.result = "PROCESSED"
    /\ decision.is_timeout
    /\ TimerRunning
    /\ clock - state.ev.timer_start >= Hours(EV_CHARGE_TIMEOUT_HOURS)

WindowEndStep ==
    /\ "window_end" \in due
    /\ due' = due \ {"window_end"}
    /\ ~state'.is_in_charging_window

\* a restart that finds no last state of the EV number: nothing is restored
FreshStartStep ==
    /\ state'.ev.energy_kwh = 0
    /\ state'.ev.timer_start = None
    /\ decision'.result = "none"

C9_EvEnergyWithinRange ==
    /\ 0 <= state.ev.energy_kwh /\ state.ev.energy_kwh <= 200
    /\ 0 <= decision.value /\ decision.value <= 200

\* a value above 200 was set, clamped, and restored after a restart
C9_Witness ==
    /\ state.ev.energy_kwh = 200
    /\ decision.result = "none"
    /\ TimerRunning

WindowStartStep ==
    /\ "window_start" \in due
    /\ due' = due \ {"window_start"}
    /\ state'.is_in_charging_window

\* an EV energy value was set before the window opened and saved for later
EvSavedBeforeWindow ==
    /\ ~state.is_in_charging_window
    /\ decision.result = "SAVED"
    /\ state.ev.energy_kwh > 0

\* the plan is one that calculate gives with ev_energy_kwh as EV load
PlanIncludesEv(plan, ev_energy_kwh) ==
    \E env \in Envs :
        plan = ChargePlan(calculate(
                   PlanningInput(env.soc, DEFAULT_BATTERY_CAPACITY,
                                 DEFAULT_MIN_SOC_RESERVE, DEFAULT_SAFETY_SPREAD,
                                 env.cons, env.solar_today, ev_energy_kwh,
                                 state.force_charge_enabled,
                                 state.disable_charge_enabled, FALSE)))

C36_TimerOnlyForInWindowRequest ==
    TimerRunning
        => /\ state.ev.energy_kwh > 0
           /\ TimerStartedInWindow
           /\ state.is_in_charging_window

ClockInWindow ==
    /\ window_start_time <= TimeOfDay(clock)
    /\ TimeOfDay(clock) < window_end_time

\* C37: is_in_charging_window agrees with the clock: whenever the window
\* callbacks of the instant have run it is true exactly when the time is in
\* [window_start, window_end), after a restart inside the window as well,
\* so that a PROCESSED decision is handled with the flag true and a SAVED
\* one with the flag false.
WindowCallbacksDone == due \cap {"window_start", "window_end"} = {}

C37_WindowFlagAgreesWithClock ==
    /\ [](WindowCallbacksDone => (state.is_in_charging_window <=> ClockInWindow))
    /\ [][(WindowCallbacksDone /\ decision' # decision
               /\ decision'.result = "PROCESSED")
             => state'.is_in_charging_window]_vars
    /\ [][(WindowCallbacksDone /\ decision' # decision
               /\ decision'.result = "SAVED")
             => ~state'.is_in_charging_window]_vars

(***************************************************************************)
(* Properties of the overrides (checked under SpecOverrides)               *)
(***************************************************************************)
\* C35: force_charge_enabled and disable_charge_enabled are never both
\* true, after any sequence of set_force_charge and set_disable_charge
\* calls (with either argument) and window ends.
C35_OverridesNeverBothSet ==
    ~(state.force_charge_enabled /\ state.disable_charge_enabled)

\* force charge is set inside the window, while a session is charging
C35_Witness ==
    /\ state.force_charge_enabled
    /\ state.is_in_charging_window
    /\ state.is_charging_active

\* C38: while the disable-charge override is enabled no grid charging takes
\* place: once an operation has completed, disable_charge_enabled and
\* is_charging_active are never both true (charging is not started under
\* the override, and enabling the override stops an active session).
C38_NoChargingWhileDisabled ==
    ~(state.disable_charge_enabled /\ state.is_charging_active)

(***************************************************************************)
(* Properties of the window end (checked under SpecWindowEnd)              *)
(***************************************************************************)
\* C34: after the window-end handler the system is back in IDLE, whatever
\* the state was before it ran: the EV energy is 0, no EV timer is running,
\* the bypass flag is off, both override flags are cleared, charging is not
\* active and the in-window flag is false.
C34_IdleAfterWindowEnd ==
    [][WindowEnd
          => /\ state'.ev.energy_kwh = 0
             /\ state'.ev.timer_start = None
             /\ ~state'.ev.bypass_active
             /\ ~state'.force_charge_enabled
             /\ ~state'.disable_charge_enabled
             /\ ~state'.is_charging_active
             /\ ~state'.is_in_charging_window]_vars

\* the window end has closed a charge session
C34_Witness ==
    /\ "window_end" \notin due
    /\ state.current_session = NewChargeSession
    /\ ~hardware.inverter_state
    /\ state.ev.energy_kwh = 0
    /\ ~state.disable_charge_enabled

(***************************************************************************)
(* Properties of the bypass requests (checked under SpecBypass)            *)
(***************************************************************************)
BypassRequestStep == bp'.requests = bp.requests + 1

\* the bypass state the requested component tracks
TrackedBypass(op) ==
    IF op = "set_bypass" THEN hardware.bypass_state ELSE bp.exec_active

BypassUntouched ==
    /\ UNCHANGED <<state, hardware, switch_bypass>>
    /\ bp'.exec_active = bp.exec_active
    /\ bp'.exec_switch = bp.exec_switch

\* the request made in this step asks for the state the bypass is in
RequestsCurrentState == TrackedBypass(bp'.ret.op) = bp'.ret.enable

\* the request made in this step repeats the one made just before it
RepeatsPreviousRequest ==
    /\ bp.ret.op # "none"
    /\ (bp.ret.op = "set_bypass") = (bp'.ret.op = "set_bypass")
    /\ bp.ret.enable = bp'.ret.enable

SkippedRequest ==
    /\ bp'.ret.calls = 0
    /\ bp'.ret.op = "set_bypass" => bp'.ret.success
    /\ BypassUntouched

\* C32 as stated: a request for the state the bypass is in makes no service
\* call and reports success, and every request that repeats the one before
\* it makes no service call and changes nothing, so that n identical
\* consecutive requests do what a single one does.
C32_IdenticalRequestsActAsOne ==
    [][BypassRequestStep
          => /\ RequestsCurrentState => SkippedRequest
             /\ RepeatsPreviousRequest
                   => (bp'.ret.calls = 0 /\ BypassUntouched)]_vars

\* C32, amended: a request for the state the bypass is in makes no service
\* call and reports success, and a request that repeats a request which
\* succeeded makes no service call and changes nothing.
C32_RepeatOfSuccessfulRequestIsSkipped ==
    [][BypassRequestStep
          => /\ RequestsCurrentState => SkippedRequest
             /\ (RepeatsPreviousRequest /\ bp.ret.success)
                   => (bp'.ret.calls = 0 /\ BypassUntouched)]_vars

\* the bypass was enabled and a further set_bypass(True) was skipped
C32_Witness ==
    /\ bp.requests >= 2
    /\ bp.ret = BpCall("set_bypass", TRUE, 0, TRUE)
    /\ hardware.bypass_state /\ switch_bypass

(***************************************************************************)
(* Properties of the rate limiter (checked under SpecRateLimit)            *)
(***************************************************************************)
ServiceCallStep(service_name) ==
    /\ rl'.calls[service_name] = rl.calls[service_name] + 1
    /\ rl'.ret.service_name = service_name

\* C39: in one run of the coordinator, a call of a rate-limited service is
\* accepted exactly when it is the first call of that service since
\* start-up or comes at least SERVICE_COOLDOWN_SECONDS after the last
\* accepted call of that service: two accepted calls of one service are at
\* least the cooldown apart, rejected calls do not move the cooldown, and
\* the calls of the other services play no part
C39_CooldownPerService ==
    [][\A service_name \in RateLimitedServices :
          ServiceCallStep(service_name) =>
              /\ rl'.ret.at = rl.now
              /\ rl'.ret.allowed =
                     \/ rl.calls[service_name] = 0
                     \/ /\ rl.accepted[service_name] # None
                        /\ rl.now - rl.accepted[service_name]
                               >= SERVICE_COOLDOWN_SECONDS
              /\ \A other \in RateLimitedServices \ {service_name} :
                     rl'.last_service_call[other] = rl.last_service_call[other]]_vars

\* a call was rejected, and the next call of the same service, exactly the
\* cooldown after the accepted one, was accepted, another service having
\* been called in between
C39_Witness ==
    /\ rl.ret.allowed
    /\ rl.calls[rl.ret.service_name] = 3
    /\ rl.accepted[rl.ret.service_name] = StartEpoch + SERVICE_COOLDOWN_SECONDS
    /\ \E other \in RateLimitedServices \ {rl.ret.service_name} :
         /\ rl.calls[other] = 1
         /\ rl.accepted[other] = StartEpoch + SERVICE_COOLDOWN_SECONDS - 1

====
